---- MODULE Spec2Model ----
(***************************************************************************)
(* A state-machine model of source/thermodynamics.c: thermodynamics_init   *)
(* and the routines it drives (parameter test, workspace set-up, the       *)
(* approximation scheduler of thermodynamics_solve, the per-phase state    *)
(* vector, the tau_reio bisection, workspace release).                     *)
(*                                                                         *)
(* Conventions                                                             *)
(*  - One action per routine (or per step of a loop the claims look into). *)
(*    A class_call / class_test / class_alloc that fails makes the routine *)
(*    return _FAILURE_ at once: the action moves pc to "failure" and       *)
(*    leaves every buffer as it is at that point.                          *)
(*  - Redshift parameters are integers in units of 1/ZScale, so that the  *)
(*    midpoints 0.5*(z_sup+z_inf) of the bisection are exact.  A redshift  *)
(*    of the grid, of the evolver or of a query is the double the code     *)
(*    holds: a multiple n of 1/ZScale plus r units of 2^-41, the rounding  *)
(*    error exp() and log() leave on the points of the log segment.  Order *)
(*    and equality tests see both parts; products and quotients are taken  *)
(*    on n, like every other rounding of double arithmetic.                *)
(*  - Y_He is in units of 1/1000.                                          *)
(*  - The stiff evolver, the background module and the RECFAST/HyRec       *)
(*    kernels are not part of source/thermodynamics.c.  The evolver is an  *)
(*    action that may fail and otherwise leaves arbitrary final values in  *)
(*    the vector it was handed; what it computes is not modelled.          *)
(*    Analytic (Saha) values are kept as symbolic terms over the redshift  *)
(*    and matter temperature they were evaluated at.                       *)
(*  - Only the RECFAST engine (pth->recombination == recfast) is modelled. *)
(*  - A read of an uninitialised C object is a nondeterministic choice     *)
(*    (GarbageIndex) or the symbolic value Indeterminate.                  *)
(***************************************************************************)
EXTENDS Integers, Sequences, FiniteSets, TLC

(***************************************************************************)
(* Bounds of the model                                                     *)
(***************************************************************************)

\* cap on the bisection's iteration counter (_MAX_IT_ of the headers)
MAX_IT == 2

\* largest optical depth the reionization integral can return in the model
MaxTau == 3

\* largest non-negative value an uninitialised int is given in the model
MaxGarbage == 1

\* number of distinct final values the evolver may leave in a variable
NLevels == 2

(***************************************************************************)
(* Units and program constants                                             *)
(***************************************************************************)

ZScale == 2 ^ MAX_IT

Z(n) == n * ZScale

\* thermodynamics.h: bounds on Y_He tested at line 359, here in 1/1000
YHE_SMALL == 10

\* thermodynamics.h: the value of Y_He that asks for the BBN prediction (-1)
YHE_BBN == -1000

\* the largest annihilation efficiency the parameter test accepts (1.e-4), in
\* units of 1.e-6
ANNIHILATION_LARGE == 100

YHE_BIG == 500

\* thermodynamics.h: the limits tested on the recombination redshift
Z_REC_MAX == 2000

Z_REC_MIN == 500

\* hard-coded phase limits and smoothing widths of thermodynamics_workspace_init
ap_z_limit_He2 == 2870

ap_z_limit_H == 1600

ap_delta_H == 50

ap_delta_frec == 50

ap_delta_reio == 2

\* indices of the approximation schemes, in chronological order
index_ap_brec == 0

index_ap_He1 == 1

index_ap_He1f == 2

index_ap_He2 == 3

index_ap_H == 4

index_ap_frec == 5

index_ap_reio == 6

ap_size == 7

(***************************************************************************)
(* Inputs: the precision structure (fixed) and the thermo structure.       *)
(***************************************************************************)

\* struct precision: the fields thermodynamics.c reads, at their usual values
ppr ==
  [ recfast_z_He_1 |-> Z(8000), recfast_delta_z_He_1 |-> Z(50),
    recfast_z_He_2 |-> Z(5000), recfast_delta_z_He_2 |-> Z(100),
    recfast_z_He_3 |-> Z(3500), recfast_delta_z_He_3 |-> Z(50),
    thermo_Nz_log |-> 2, thermo_Nz_lin |-> 2,
    reionization_z_start_max |-> Z(50),
    reionization_sampling |-> Z(25),
    reionization_start_factor |-> 8,
    \* smallest_allowed_variation, one unit of redshift
    smallest_allowed_variation |-> 1,
    \* neglect_CMB_sources_below_visibility as the fraction cut_num / cut_den
    cut_num |-> 1, cut_den |-> 2,
    \* reionization_optical_depth_tol as the fraction tol_num / tol_den
    tol_num |-> 1, tol_den |-> 2 ]

ReioSchemes ==
  {"reio_none", "reio_camb", "reio_half_tanh", "reio_bins_tanh",
   "reio_many_tanh", "reio_inter"}

\* the schemes that have a reionization redshift, hence can be driven by tau_reio
TauSchemes == {"reio_camb", "reio_half_tanh"}

YHeInputs == {5, 245, 600, YHE_BBN}

\* pth->annihilation in units of 1.e-6
AnnihilationInputs == {-1, 0, 1, 200}

\* ppr->sBBN_file: whether the file can be opened
BBNFiles == {"readable", "missing"}

\* the helium fraction the table of the BBN file gives for the baryon density
\* and N_eff of the background (both inside the table)
YHe_of_bbn_table == 245

ZInitialInputs == {Z(3000), Z(5000000)}

\* ppr->thermo_z_linear
ZLinearInputs == {Z(3010), Z(10000)}

TauTargets == {2, 3}

\* the remaining input fields of struct thermo, at their usual values
pth_fixed ==
  [ reionization_width |-> ZScale \div 2,
    helium_fullreio_redshift |-> (7 * ZScale) \div 2,
    helium_fullreio_width |-> ZScale \div 2,
    \* reionization_exponent in halves
    reionization_exponent |-> 3,
    z_reio |-> Z(8),
    \* bin centres and jump centres, xe in 1/1000 (-1000 and -2000 are the
    \* sentinels -1 and -2)
    binned_reio_z |-> <<Z(8), Z(12), Z(16)>>,
    binned_reio_xe |-> <<800, 200, 100>>,
    binned_reio_step_sharpness |-> (3 * ZScale) \div 10,
    many_tanh_z |-> <<(7 * ZScale) \div 2, Z(7)>>,
    many_tanh_xe |-> <<-2000, -1000>>,
    many_tanh_width |-> ZScale \div 2,
    reio_inter_z |-> <<0, Z(3), Z(10), Z(20)>>,
    reio_inter_xe |-> <<-2000, -1000, 500, 0>> ]

\* the energy-injection fields of struct thermo and pba->has_cdm, at their
\* usual values
heat_fixed ==
  [ annihilation_variation |-> 0, annihilation_z |-> 1000,
    annihilation_zmin |-> 30, annihilation_zmax |-> 2500,
    annihilation_f_halo |-> 0, annihilation_z_halo |-> 30,
    decay |-> 0, has_on_the_spot |-> TRUE, has_cdm |-> TRUE ]

\* the same with one field changed: each field the parameter test looks at
\* on the wrong side of its test, a decay or a halo term switched on, and
\* the energy injection beyond the on-the-spot approximation
HeatInputs ==
  {heat_fixed,
   [heat_fixed EXCEPT !.annihilation_variation = 1],
   [heat_fixed EXCEPT !.annihilation_z = -1],
   [heat_fixed EXCEPT !.annihilation_zmin = -1],
   [heat_fixed EXCEPT !.annihilation_zmax = -1],
   [heat_fixed EXCEPT !.annihilation_f_halo = -1],
   [heat_fixed EXCEPT !.annihilation_z_halo = -1],
   [heat_fixed EXCEPT !.decay = -1],
   [heat_fixed EXCEPT !.decay = 1],
   [heat_fixed EXCEPT !.decay = 1, !.has_cdm = FALSE],
   [heat_fixed EXCEPT !.has_cdm = FALSE]}

\* the same fields as an input file can set them for the scheme that reads
\* them: the jump centres in the order 7.0, 3.5 with many_tanh_xe = -1, -2,
\* a width or sharpness equal to zero, an xe entry that is neither positive
\* nor one of the sentinels, and points that put the start of reionization
\* above reionization_z_start_max
PthInputs(scheme) ==
  {pth_fixed} \cup
  CASE scheme \in {"reio_camb", "reio_half_tanh"} ->
         {[pth_fixed EXCEPT !.reionization_width = 0],
          [pth_fixed EXCEPT !.helium_fullreio_width = 0]}
    [] scheme = "reio_bins_tanh" ->
         {[pth_fixed EXCEPT !.binned_reio_step_sharpness = 0],
          [pth_fixed EXCEPT !.binned_reio_z = <<Z(20), Z(30), Z(40)>>]}
    [] scheme = "reio_many_tanh" ->
         {[pth_fixed EXCEPT !.many_tanh_z = <<Z(7), (7 * ZScale) \div 2>>,
                            !.many_tanh_xe = <<-1000, -2000>>],
          [pth_fixed EXCEPT !.many_tanh_width = 0],
          [pth_fixed EXCEPT !.many_tanh_xe = <<-2000, -3000>>],
          [pth_fixed EXCEPT !.many_tanh_z = <<Z(7), Z(48)>>]}
    [] scheme = "reio_inter" ->
         {[pth_fixed EXCEPT !.reio_inter_xe = <<-2000, -3000, 500, 0>>],
          [pth_fixed EXCEPT !.reio_inter_z = <<0, Z(3), Z(10), Z(60)>>]}
    [] OTHER -> {}

\* struct thermo: the input fields
Inputs ==
  { i \in [ YHe : YHeInputs,
            annihilation : AnnihilationInputs,
            thermo_z_initial : ZInitialInputs,
            thermo_z_linear : ZLinearInputs,
            reio_parametrization : ReioSchemes,
            reio_z_or_tau : {"reio_z", "reio_tau"},
            tau_reio : TauTargets \cup {0},
            pth : UNION {PthInputs(scheme) : scheme \in ReioSchemes},
            heat : HeatInputs,
            sBBN_file : BBNFiles ] :
      /\ i.thermo_z_linear = Z(10000) => i.thermo_z_initial = Z(3000)
      /\ i.reio_z_or_tau = "reio_tau" => i.reio_parametrization \in TauSchemes
      /\ i.reio_z_or_tau = "reio_tau" <=> i.tau_reio # 0
      /\ i.pth \in PthInputs(i.reio_parametrization)
      /\ i.pth # pth_fixed =>
            /\ i.YHe = 245 /\ i.annihilation = 0
            /\ i.thermo_z_initial = Z(5000000)
            /\ i.reio_z_or_tau = "reio_z"
      /\ (i.heat # heat_fixed \/ i.YHe = YHE_BBN \/ i.sBBN_file = "missing") =>
            /\ i.pth = pth_fixed
            /\ i.annihilation \in {0, 1}
            /\ i.thermo_z_initial = Z(5000000)
            /\ i.reio_parametrization = "reio_camb"
            /\ i.reio_z_or_tau = "reio_z"
      /\ i.heat # heat_fixed => (i.YHe = 245 /\ i.sBBN_file = "readable")
      /\ i.sBBN_file = "missing" => i.YHe \in {245, YHE_BBN} }

(***************************************************************************)
(* Values.  A matter temperature is an integer.  An ionization fraction or *)
(* its derivative is a term: a named constant, an analytic expression      *)
(* evaluated at (z, Tmat, dTmat), a level left by the evolver, or the      *)
(* content of an uninitialised object.                                     *)
(***************************************************************************)

Sym(kind, z, T, dT) ==
  [kind |-> kind, z |-> z, r |-> 0, T |-> T, dT |-> dT, neg |-> FALSE]

\* a term evaluated at the double z
SymAt(kind, z, T, dT) == [Sym(kind, z.n, T, dT) EXCEPT !.r = z.r]

Const(name) == Sym(name, 0, 0, 0)

Evolved(level) == Sym("evolved", level, 0, 0)

Indeterminate == Const("indeterminate")

\* unary minus on a term
Neg(v) == [v EXCEPT !.neg = ~v.neg]

\* the greatest common divisor of two naturals
RECURSIVE GCD(_, _)
GCD(a, b) == IF b = 0 THEN a ELSE GCD(b, a % b)

Abs(a) == IF a < 0 THEN -a ELSE a

\* a double that was never assigned
Unassigned == [kind |-> "unassigned", num |-> 0, den |-> 1]

\* 0./0.
NaN == [kind |-> "nan", num |-> 0, den |-> 1]

\* the double num/den as IEEE arithmetic gives it: a fraction in lowest
\* terms with a positive denominator, an infinity of the sign of num when
\* den is zero, not a number when both are zero
Quotient(num, den) ==
  IF den = 0
  THEN IF num = 0 THEN NaN
       ELSE [kind |-> "infinite", num |-> IF num > 0 THEN 1 ELSE -1, den |-> 0]
  ELSE LET d == GCD(Abs(num), Abs(den))
           sign == IF den < 0 THEN -1 ELSE 1
       IN [kind |-> "finite", num |-> sign * (num \div d),
           den |-> sign * (den \div d)]

Levels == 1 .. NLevels

\* struct background: T_cmb in the model's temperature unit
pba == [T_cmb |-> 3]

Tcmb == pba.T_cmb

\* what an uninitialised int may hold: a negative value or 0 .. MaxGarbage
GarbageIndex == -1 .. MaxGarbage

(***************************************************************************)
(* thermo_vector: the indices of the integrated variables, their number,   *)
(* and the arrays y and dy (used_in_output is all _TRUE_).                 *)
(***************************************************************************)

NoVector == [index |-> << >>, tv_size |-> 0, y |-> << >>, dy |-> << >>]

\* the variables thermodynamics_vector_init gives an index to, in order
VectorVars(ap) ==
  IF ap = index_ap_H THEN <<"Tmat", "x_He">>
  ELSE IF ap = index_ap_frec \/ ap = index_ap_reio THEN <<"Tmat", "x_He", "x_H">>
  ELSE <<"Tmat">>

\* class_define_index over a list of variables, from running index `first`
DefineIndices(vars, first) ==
  [v \in {vars[k] : k \in 1 .. Len(vars)} |->
     first + (CHOOSE k \in 1 .. Len(vars) : vars[k] = v) - 1]

Vars(tvec) == DOMAIN tvec.index

(***************************************************************************)
(* thermodynamics_helium_from_bbn: status and the value left in pth->YHe.  *)
(* The background calls succeed and the baryon density and N_eff lie       *)
(* inside the table of the file.                                           *)
(***************************************************************************)

thermodynamics_helium_from_bbn(i) ==
  IF i.sBBN_file = "missing"
  THEN [status |-> "could not open fA", YHe |-> i.YHe]
  ELSE [status |-> "ok", YHe |-> YHe_of_bbn_table]

(***************************************************************************)
(* thermodynamics_test_parameters: the first test that fires, or "ok"      *)
(* (_not4_ is a nonzero constant of the header).                           *)
(***************************************************************************)

thermodynamics_test_parameters(i) ==
  IF i.YHe < YHE_SMALL \/ i.YHe > YHE_BIG THEN "Y_He out of bounds"
  ELSE IF i.annihilation < 0 THEN "annihilation parameter cannot be negative"
  ELSE IF i.annihilation > ANNIHILATION_LARGE
  THEN "annihilation parameter suspiciously large"
  ELSE IF i.heat.annihilation_variation > 0
  THEN "annihilation variation parameter must be negative"
  ELSE IF i.heat.annihilation_z < 0 \/ i.heat.annihilation_zmin < 0
          \/ i.heat.annihilation_zmax < 0
  THEN "characteristic annihilation redshift cannot be negative"
  ELSE IF i.annihilation > 0 /\ ~i.heat.has_cdm
  THEN "CDM annihilation effects require the presence of CDM!"
  ELSE IF i.heat.annihilation_f_halo < 0 \/ i.heat.annihilation_z_halo < 0
  THEN "Parameter for DM annihilation in halos cannot be negative"
  ELSE IF i.heat.decay < 0 THEN "decay parameter cannot be negative"
  ELSE IF i.heat.decay > 0 /\ ~i.heat.has_cdm
  THEN "CDM decay effects require the presence of CDM!"
  ELSE IF i.YHe = 1000 THEN "stop to avoid division by zero"
  ELSE IF -i.thermo_z_initial > ppr.recfast_z_He_3
       THEN "increase zinitial"
  ELSE "ok"

(***************************************************************************)
(* thermodynamics_workspace_init: sizes, limits and smoothing widths.      *)
(***************************************************************************)

Nz_reco_lin == ppr.thermo_Nz_lin

Nz_reco_log == ppr.thermo_Nz_log

Nz_reio == ppr.reionization_z_start_max \div ppr.reionization_sampling

Nz_reco == Nz_reco_lin + Nz_reco_log

Nz_tot == Nz_reio + Nz_reco

ap_z_limits ==
  [ap \in 0 .. ap_size - 1 |->
     CASE ap = index_ap_brec -> ppr.recfast_z_He_1 + ppr.recfast_delta_z_He_1
       [] ap = index_ap_He1 -> ppr.recfast_z_He_2 + ppr.recfast_delta_z_He_2
       [] ap = index_ap_He1f -> ppr.recfast_z_He_3 + ppr.recfast_delta_z_He_3
       [] ap = index_ap_He2 -> Z(ap_z_limit_He2)
       [] ap = index_ap_H -> Z(ap_z_limit_H)
       [] ap = index_ap_frec -> ppr.reionization_z_start_max
       [] OTHER -> 0]

ap_z_limits_delta ==
  [ap \in 0 .. ap_size - 1 |->
     CASE ap = index_ap_brec -> 0
       [] ap = index_ap_He1 -> ppr.recfast_delta_z_He_1
       [] ap = index_ap_He1f -> ppr.recfast_delta_z_He_2
       [] ap = index_ap_He2 -> ppr.recfast_delta_z_He_3
       [] ap = index_ap_H -> Z(ap_delta_H)
       [] ap = index_ap_frec -> Z(ap_delta_frec)
       [] OTHER -> Z(ap_delta_reio)]

\* the buffers thermodynamics_workspace_init allocates (ptw itself is
\* allocated by thermodynamics_init just before the call)
WorkspaceInitAllocs ==
  {"ptdw", "ptrp", "pthp", "precfast", "ap_z_limits", "ap_z_limits_delta"}

(***************************************************************************)
(* thermodynamics_indices: which reionization parameters get an index.     *)
(* index_reio_start takes slot 0 and the running index is then advanced    *)
(* once more, so the next parameter sits at slot 2.                        *)
(***************************************************************************)

ReioParamNames(scheme) ==
  CASE scheme \in {"reio_camb", "reio_half_tanh"} ->
         <<"reio_redshift", "reio_exponent", "reio_width", "reio_xe_before",
           "reio_xe_after", "helium_fullreio_fraction",
           "helium_fullreio_redshift", "helium_fullreio_width">>
    [] scheme \in {"reio_bins_tanh", "reio_many_tanh"} ->
         <<"reio_first_z", "reio_first_xe", "reio_step_sharpness",
           "reio_xe_before">>
    [] scheme = "reio_inter" ->
         <<"reio_first_z", "reio_first_xe", "reio_xe_before">>
    [] OTHER -> << >>

\* the parameters with a defined index; every other index_reio_* field of
\* the freshly allocated structure is uninitialised
DefinedReioParams(scheme) ==
  {"reio_start"} \cup
  {ReioParamNames(scheme)[k] : k \in 1 .. Len(ReioParamNames(scheme))}

(***************************************************************************)
(* thermodynamics_lists: the redshift grid (index 1 of the sequence is     *)
(* z_table[0]).  With N points the log segment needs the (N-1)-th root of  *)
(* zlinear^k * zinitial^(N-1-k); the model keeps N = 2, where the points   *)
(* are exp(log(zinitial) - log(zlinear) + log(zlinear)) and                *)
(* exp(0. + log(zlinear)) in doubles.                                      *)
(***************************************************************************)

\* the double n / ZScale + r * 2^-41
Redshift(n, r) == [n |-> n, r |-> r]

\* a double that is a multiple of 1/ZScale
Exact(n) == Redshift(n, 0)

\* -z
Opposite(z) == Redshift(-z.n, -z.r)

\* a < b for two doubles
Less(a, b) == a.n < b.n \/ (a.n = b.n /\ a.r < b.r)

\* a <= b for two doubles
AtMost(a, b) == ~Less(b, a)

\* exp(x) - z in units of 2^-41 for the argument x the log segment computes
\* for a point equal to z in exact arithmetic, as IEEE doubles and the
\* exp and log of the C library give it: 5000000.0000000028 and
\* 2999.9999999999977 for zinitial, 3010.0000000000023 and
\* 10000.000000000009 for zlinear
ExpLogRounding(zinitial, zlinear, index_z) ==
  IF index_z = Nz_reco_log - 1
  THEN CASE zlinear = Z(3010) -> 5
         [] zlinear = Z(10000) -> 20
  ELSE CASE zinitial = Z(5000000) /\ zlinear \in {Z(3010), Z(10000)} -> 6144
         [] zinitial = Z(3000) /\ zlinear \in {Z(3010), Z(10000)} -> -5

LogPoint(zinitial, zlinear, index_z) ==
  Redshift(IF index_z = Nz_reco_log - 1 THEN zlinear ELSE zinitial,
           ExpLogRounding(zinitial, zlinear, index_z))

LinPoint(zlinear, index_z) ==
  Exact(((zlinear - ppr.reionization_z_start_max) * (Nz_reco_lin - 1 - index_z))
          \div Nz_reco_lin + ppr.reionization_z_start_max)

ReioPoint(index_z) ==
  Exact((ppr.reionization_z_start_max * (Nz_reio - 1 - index_z)) \div Nz_reio)

\* z_table[(tt_size-1) - k] for k = 0 .. tt_size-1, then reversed
GridFromTop(zinitial, zlinear, k) ==
  IF k < Nz_reco_log THEN LogPoint(zinitial, zlinear, k)
  ELSE IF k < Nz_reco THEN LinPoint(zlinear, k - Nz_reco_log)
  ELSE ReioPoint(k - Nz_reco)

thermodynamics_lists(zinitial, zlinear) ==
  [n \in 1 .. Nz_tot |-> GridFromTop(zinitial, zlinear, Nz_tot - n)]

ListsAllocs ==
  {"tau_table", "z_table", "thermodynamics_table", "d2thermodynamics_dz2_table"}


(***************************************************************************)
(* The reionization parameter array.  `written` names the scalar slots     *)
(* that have been assigned since the array was allocated, z_written and    *)
(* xe_written the slots index_reio_first_z + k and index_reio_first_xe + k *)
(* (k from 0 is position k+1 of first_z / first_xe); a slot outside them   *)
(* holds whatever the allocator left there.                                *)
(***************************************************************************)

Xe(v) == Sym("xe", v, 0, 0)

EmptyReioParams ==
  [ written |-> {}, z_written |-> {}, xe_written |-> {},
    reio_start |-> 0, reio_redshift |-> 0, reio_exponent |-> 0,
    reio_width |-> 0, reio_xe_before |-> Indeterminate,
    reio_xe_after |-> Indeterminate,
    helium_fullreio_fraction |-> Indeterminate,
    helium_fullreio_redshift |-> 0, helium_fullreio_width |-> 0,
    reio_step_sharpness |-> 0,
    first_z |-> << >>, first_xe |-> << >> ]

\* the array as class_alloc leaves it when reio_num_z = num
Allocated(num) ==
  [EmptyReioParams EXCEPT !.first_z = [k \in 1 .. num |-> 0],
                          !.first_xe = [k \in 1 .. num |-> Indeterminate]]

\* reionization_parameters[index_reio_first_z + k] = v
SetFirstZ(rp, k, v) ==
  [rp EXCEPT !.first_z[k + 1] = v, !.z_written = @ \cup {k}]

\* reionization_parameters[index_reio_first_xe + k] = v
SetFirstXe(rp, k, v) ==
  [rp EXCEPT !.first_xe[k + 1] = v, !.xe_written = @ \cup {k}]

\* reionization_parameters[index_reio_start] = v
SetStart(rp, v) ==
  [rp EXCEPT !.reio_start = v, !.written = @ \cup {"reio_start"}]

\* reionization_parameters[index_reio_step_sharpness] = v
SetSharpness(rp, v) ==
  [rp EXCEPT !.reio_step_sharpness = v,
             !.written = @ \cup {"reio_step_sharpness"}]

\* reio_num_z as thermodynamics_indices sets it
reio_num_z(scheme, p) ==
  CASE scheme = "reio_bins_tanh" -> Len(p.binned_reio_z) + 2
    [] scheme = "reio_many_tanh" -> Len(p.many_tanh_z) + 2
    [] scheme = "reio_inter" -> Len(p.reio_inter_z)
    [] OTHER -> 0

\* the value a (z,xe) input stands for: itself, or one of the two sentinels
XeActual(xe_input) ==
  IF xe_input >= 0 THEN Xe(xe_input)
  ELSE IF xe_input < -900 /\ xe_input > -1100 THEN Const("1+fHe")
  ELSE IF xe_input < -1900 /\ xe_input > -2100 THEN Const("1+2fHe")
  ELSE Const("nonsense")

XeInputOk(xe_input) ==
  \/ xe_input >= 0
  \/ xe_input < -900 /\ xe_input > -1100
  \/ xe_input < -1900 /\ xe_input > -2100

GrowingOrder(zs) == \A bin \in 2 .. Len(zs) : zs[bin - 1] < zs[bin]

Ok(rp) == [status |-> "ok", rp |-> rp]

Err(msg, rp) == [status |-> msg, rp |-> rp]

\* (a) reio_camb and reio_half_tanh
SetParametersCamb(i, p) ==
  LET sf == ppr.reionization_start_factor
      zmax == ppr.reionization_z_start_max
      rp0 == [EmptyReioParams EXCEPT
                !.reio_xe_after =
                   IF i.reio_parametrization = "reio_camb"
                   THEN Const("1+fHe") ELSE Const("1"),
                !.reio_exponent = p.reionization_exponent,
                !.reio_width = p.reionization_width,
                !.helium_fullreio_fraction = Const("fHe"),
                !.helium_fullreio_redshift = p.helium_fullreio_redshift,
                !.helium_fullreio_width = p.helium_fullreio_width,
                !.written = {"reio_xe_after", "reio_exponent", "reio_width",
                             "helium_fullreio_fraction",
                             "helium_fullreio_redshift",
                             "helium_fullreio_width"}]
      start_H == p.z_reio + sf * p.reionization_width
      start_He == p.helium_fullreio_redshift + sf * p.helium_fullreio_width
      start_z == IF i.reio_parametrization = "reio_camb"
                 THEN (IF start_H < start_He THEN start_He ELSE start_H)
                 ELSE p.z_reio
      rp_z == [rp0 EXCEPT !.reio_redshift = p.z_reio, !.reio_start = start_z,
                          !.written = @ \cup {"reio_redshift", "reio_start"}]
      z_sup == zmax - sf * p.reionization_width
      rp_tau == [rp0 EXCEPT !.reio_redshift = z_sup, !.reio_start = zmax,
                            !.written = @ \cup {"reio_redshift", "reio_start"}]
  IN IF rp0.reio_exponent = 0 \/ rp0.reio_width = 0
        \/ rp0.helium_fullreio_width = 0
     THEN Err("stop to avoid division by zero", rp0)
     ELSE IF i.reio_z_or_tau = "reio_z"
     THEN (IF rp_z.reio_start > zmax
           THEN Err("starting redshift for reionization > reionization_z_start_max", rp_z)
           ELSE Ok(rp_z))
     ELSE (IF z_sup < 0
           THEN Err("reionization cannot take place before today", rp0)
           ELSE Ok(rp_tau))

\* "fill all entries except the first and the last"
RECURSIVE CopyBins(_, _, _)
CopyBins(p, rp, bin) ==
  IF bin < Len(rp.first_z) - 1
  THEN CopyBins(p,
                SetFirstXe(SetFirstZ(rp, bin, p.binned_reio_z[bin]), bin,
                           Xe(p.binned_reio_xe[bin])),
                bin + 1)
  ELSE rp

\* (b) reio_bins_tanh
SetParametersBins(p) ==
  LET n == Len(p.binned_reio_z)
      num == reio_num_z("reio_bins_tanh", p)
      rp1 == CopyBins(p, Allocated(num), 1)
      rp2 == SetFirstZ(rp1, num - 1,
                       rp1.first_z[num - 1]
                         + 2 * (rp1.first_z[num - 1] - rp1.first_z[num - 2]))
      rp3 == SetStart(rp2, rp2.first_z[num])
      z_first == 2 * rp3.first_z[2] - rp3.first_z[3]
      rp4 == SetFirstZ(rp3, 0, IF z_first < 0 THEN 0 ELSE z_first)
      rp5 == SetFirstXe(rp4, 0, Const("1+fHe"))
  IN IF n < 2
     THEN Err("binned reio requires at least two bin centers", Allocated(num))
     ELSE IF ~GrowingOrder(p.binned_reio_z)
     THEN Err("bin centers expected in growing order", Allocated(num))
     ELSE IF rp3.reio_start > ppr.reionization_z_start_max
     THEN Err("starting redshift for reionization too big", rp3)
     ELSE Ok(SetSharpness(rp5, p.binned_reio_step_sharpness))

\* the loop over the jump centres: it stops at the first xe entry that makes
\* no sense, after the redshift of that entry has been copied
RECURSIVE CopyJumps(_, _, _)
CopyJumps(p, rp, bin) ==
  IF bin < Len(rp.first_z) - 1
  THEN IF ~XeInputOk(p.many_tanh_xe[bin])
       THEN Err("entry for many_tanh_xe makes no sense",
                SetFirstZ(rp, bin, p.many_tanh_z[bin]))
       ELSE CopyJumps(p,
                      SetFirstXe(SetFirstZ(rp, bin, p.many_tanh_z[bin]), bin,
                                 XeActual(p.many_tanh_xe[bin])),
                      bin + 1)
  ELSE Ok(rp)

\* (c) reio_many_tanh
SetParametersManyTanh(p) ==
  LET n == Len(p.many_tanh_z)
      num == reio_num_z("reio_many_tanh", p)
      span == ppr.reionization_start_factor * p.many_tanh_width
      copied == CopyJumps(p, Allocated(num), 1)
      rp2 == SetFirstZ(copied.rp, num - 1, copied.rp.first_z[num - 1] + span)
      rp3 == SetStart(rp2, rp2.first_z[num])
      z_first == rp3.first_z[2] - span
      rp4 == SetFirstZ(rp3, 0, IF z_first < 0 THEN 0 ELSE z_first)
      rp5 == SetFirstXe(rp4, 0, rp4.first_xe[2])
  IN IF n < 1
     THEN Err("reio_many_tanh requires at least one jump center", Allocated(num))
     ELSE IF ~GrowingOrder(p.many_tanh_z)
     THEN Err("bin centers expected in growing order", Allocated(num))
     ELSE IF copied.status # "ok" THEN copied
     ELSE IF rp3.reio_start > ppr.reionization_z_start_max
     THEN Err("starting redshift for reionization too big", rp3)
     ELSE IF p.many_tanh_width <= 0
     THEN Err("many_tanh_width must be strictly positive", rp5)
     ELSE Ok(SetSharpness(rp5, p.many_tanh_width))

\* "copy here the (z,xe) values passed in input": the loop stops at the first
\* xe entry that makes no sense, after the redshift of that entry has been
\* copied
RECURSIVE CopyPoints(_, _, _)
CopyPoints(p, rp, point) ==
  IF point < Len(rp.first_z)
  THEN IF ~XeInputOk(p.reio_inter_xe[point + 1])
       THEN Err("entry for reio_inter_xe makes no sense",
                SetFirstZ(rp, point, p.reio_inter_z[point + 1]))
       ELSE CopyPoints(p,
                       SetFirstXe(SetFirstZ(rp, point, p.reio_inter_z[point + 1]),
                                  point, XeActual(p.reio_inter_xe[point + 1])),
                       point + 1)
  ELSE Ok(rp)

\* (d) reio_inter
SetParametersInter(p) ==
  LET n == Len(p.reio_inter_z)
      num == reio_num_z("reio_inter", p)
      copied == CopyPoints(p, Allocated(num), 0)
      rp2 == SetStart(copied.rp, copied.rp.first_z[num])
  IN IF n < 1
     THEN Err("reio_inter requires at least one point", Allocated(num))
     ELSE IF p.reio_inter_z[1] # 0
     THEN Err("first value of reio_inter_z should be zero", Allocated(num))
     ELSE IF ~GrowingOrder(p.reio_inter_z)
     THEN Err("bin centers expected in growing order", Allocated(num))
     ELSE IF p.reio_inter_xe[n] # 0
     THEN Err("last value of reio_inter_xe should be zero", Allocated(num))
     ELSE IF copied.status # "ok" THEN copied
     ELSE IF rp2.reio_start > ppr.reionization_z_start_max
     THEN Err("starting redshift for reionization too big", rp2)
     ELSE Ok(rp2)

thermodynamics_set_parameters_reionization(i, p) ==
  IF ppr.reionization_sampling <= 0
  THEN Err("Reionization stepsize has to be larger than zero", EmptyReioParams)
  ELSE CASE i.reio_parametrization \in {"reio_camb", "reio_half_tanh"} ->
              SetParametersCamb(i, p)
         [] i.reio_parametrization = "reio_bins_tanh" -> SetParametersBins(p)
         [] i.reio_parametrization = "reio_many_tanh" -> SetParametersManyTanh(p)
         [] i.reio_parametrization = "reio_inter" -> SetParametersInter(p)
         [] OTHER -> Ok(EmptyReioParams)


(***************************************************************************)
(* thermodynamics_reionization_function: x and dx at redshift z, the       *)
(* parameter array as the call leaves it, and the status.  The tanh and    *)
(* interpolation formulas are kept as terms over z and the parameters      *)
(* they read.                                                              *)
(***************************************************************************)

Zero == Const("0")

\* number of leading entries of zs (from position `from`) that lie below z:
\* the loop `while (first_z[i+1] < z) i++`
RECURSIVE FirstNotBelow(_, _, _)
FirstNotBelow(zs, z, i) ==
  IF i + 2 <= Len(zs) /\ Less(Exact(zs[i + 2]), z)
  THEN FirstNotBelow(zs, z, i + 1) ELSE i

\* "fix the final xe to xe_before"
FixFinalXe(rp) ==
  SetFirstXe(rp, Len(rp.first_xe) - 1, rp.reio_xe_before)

ReioResult(status, x, dx, rp) == [status |-> status, x |-> x, dx |-> dx, rp |-> rp]

\* the number a term stands for where the code compares it with zero, in
\* 1/1000: an input value is itself, 1+fHe and 1+2fHe are taken at
\* Y_He = 0.245, and any other term counts with its sign and magnitude one
Magnitude(v) ==
  CASE v.kind = "xe" -> v.z
    [] v.kind = "0" -> 0
    [] v.kind = "1+fHe" -> 1082
    [] v.kind = "1+2fHe" -> 1163
    [] OTHER -> 1000

Number(v) == IF v.neg THEN -Magnitude(v) ELSE Magnitude(v)

\* *x < 0. for *x = xe_min + (z-z_min)/(z_max-z_min)*(xe_max-xe_min)
InterpolationNegative(z, z_min, z_max, xe_min, xe_max) ==
  Number(xe_min) * (z_max - z_min)
    + (z.n - z_min) * (Number(xe_max) - Number(xe_min)) < 0

thermodynamics_reionization_function(z, scheme, rp) ==
  CASE scheme \in {"reio_camb", "reio_half_tanh"} ->
         IF Less(Exact(rp.reio_start), z)
         THEN ReioResult("ok", rp.reio_xe_before, Zero, rp)
         ELSE ReioResult("ok", SymAt(scheme, z, rp.reio_redshift, rp.reio_width),
                         SymAt("d_" \o scheme, z, rp.reio_redshift, rp.reio_width), rp)
    [] scheme = "reio_bins_tanh" ->
         IF Less(Exact(rp.first_z[Len(rp.first_z)]), z)
         THEN ReioResult("ok", rp.reio_xe_before, Zero, rp)
         ELSE IF Less(z, Exact(rp.first_z[1]))
         THEN ReioResult("ok", rp.first_xe[1], Zero, rp)
         ELSE LET i == FirstNotBelow(rp.first_z, z, 0)
              IN ReioResult("ok", SymAt(scheme, z, i, rp.reio_step_sharpness),
                            SymAt("d_" \o scheme, z, i, rp.reio_step_sharpness),
                            FixFinalXe(rp))
    [] scheme = "reio_many_tanh" ->
         IF Less(Exact(rp.first_z[Len(rp.first_z)]), z)
         THEN ReioResult("ok", rp.reio_xe_before, Zero, rp)
         ELSE IF Less(Exact(rp.first_z[1]), z)
         THEN ReioResult("ok", SymAt(scheme, z, 0, rp.reio_step_sharpness),
                         SymAt("d_" \o scheme, z, 0, rp.reio_step_sharpness),
                         FixFinalXe(rp))
         ELSE ReioResult("ok", rp.first_xe[1], Zero, rp)
    [] scheme = "reio_inter" ->
         IF Less(Exact(rp.first_z[Len(rp.first_z)]), z)
         THEN ReioResult("ok", rp.reio_xe_before, Zero, rp)
         ELSE LET i == FirstNotBelow(rp.first_z, z, 0)
                  z_min == rp.first_z[i + 1]
                  z_max == rp.first_z[i + 2]
                  fixed == FixFinalXe(rp)
              IN IF Less(z, Exact(z_min)) \/ Less(Exact(z_max), z)
                 THEN ReioResult("z out of range for reionization interpolation",
                                 Indeterminate, Indeterminate, fixed)
                 ELSE IF InterpolationNegative(z, z_min, z_max,
                                               fixed.first_xe[i + 1],
                                               fixed.first_xe[i + 2])
                 THEN ReioResult("Interpolation gives negative ionization fraction",
                                 SymAt(scheme, z, i, 0),
                                 SymAt("d_" \o scheme, z, i, 0), fixed)
                 ELSE ReioResult("ok", SymAt(scheme, z, i, 0),
                                 SymAt("d_" \o scheme, z, i, 0), fixed)
    [] OTHER ->
         ReioResult("value of reio_parametrization unclear",
                    Indeterminate, Indeterminate, rp)

(***************************************************************************)
(* thermo_diffeq_workspace: the fields the routines below exchange.        *)
(***************************************************************************)

EmptyWorkspace ==
  [ Tmat |-> 0, dTmat |-> 0,
    x_H |-> Indeterminate, x_He |-> Indeterminate, x |-> Indeterminate,
    dx_H |-> Indeterminate, dx_He |-> Indeterminate, dx |-> Indeterminate,
    require_H |-> FALSE, require_He |-> FALSE ]

\* the six values thermodynamics_x_analytic saves into the workspace; a
\* local that the branch taken never assigns is saved uninitialised
Analytic(x_H, x_He, x, dx_H, dx_He, dx) ==
  [x_H |-> x_H, x_He |-> x_He, x |-> x, dx_H |-> dx_H, dx_He |-> dx_He, dx |-> dx]

One == Const("1")

AnalyticValues(z, w, current_ap, reio) ==
  CASE current_ap = index_ap_brec ->
         Analytic(One, One, Const("1+2fHe"), Zero, Zero, Zero)
    [] current_ap = index_ap_He1 ->
         Analytic(One, One, SymAt("saha_He1_x", z, w.Tmat, w.dTmat), Zero, Zero,
                  SymAt("saha_He1_dx", z, w.Tmat, w.dTmat))
    [] current_ap = index_ap_He1f ->
         Analytic(One, One, Const("1+fHe"), Zero, Zero, Zero)
    [] current_ap = index_ap_He2 ->
         Analytic(One, SymAt("saha_He2_x_He", z, w.Tmat, w.dTmat),
                  SymAt("saha_He2_x", z, w.Tmat, w.dTmat), Zero,
                  SymAt("saha_He2_dx_He", z, w.Tmat, w.dTmat),
                  SymAt("saha_He2_dx", z, w.Tmat, w.dTmat))
    [] current_ap = index_ap_H ->
         Analytic(SymAt("saha_H_x_H", z, w.Tmat, w.dTmat), Indeterminate,
                  Indeterminate, SymAt("saha_H_dx_H", z, w.Tmat, w.dTmat),
                  Indeterminate, Indeterminate)
    [] current_ap = index_ap_reio ->
         Analytic(Indeterminate, Indeterminate, reio.x, Indeterminate,
                  Indeterminate, reio.dx)
    [] OTHER ->
         Analytic(Indeterminate, Indeterminate, Indeterminate, Indeterminate,
                  Indeterminate, Indeterminate)

Save(w, a) ==
  [w EXCEPT !.x_H = a.x_H, !.x_He = a.x_He, !.x = a.x,
            !.dx_H = a.dx_H, !.dx_He = a.dx_He, !.dx = a.dx]

\* status, workspace, parameter array, and whether the call stored through
\* an index_reio_xe_before that thermodynamics_indices never set
thermodynamics_x_analytic(z, scheme, w, rp, current_ap) ==
  IF current_ap = index_ap_reio
  THEN LET wild == "reio_xe_before" \notin DefinedReioParams(scheme)
           rp1 == IF wild THEN rp
                  ELSE [rp EXCEPT !.reio_xe_before = w.x,
                                  !.written = @ \cup {"reio_xe_before"}]
           r == thermodynamics_reionization_function(z, scheme, rp1)
       IN [status |-> r.status,
           w |-> IF r.status = "ok"
                 THEN Save(w, AnalyticValues(z, w, current_ap, r)) ELSE w,
           rp |-> r.rp, wild |-> wild]
  ELSE [status |-> "ok",
        w |-> Save(w, AnalyticValues(z, w, current_ap, [x |-> Zero, dx |-> Zero])),
        rp |-> rp, wild |-> FALSE]

(***************************************************************************)
(* thermodynamics_vector_init at the start of the interval of phase ap:    *)
(* the new vector and the workspace.  `old` is the vector of the previous  *)
(* phase, which the routine frees.                                         *)
(***************************************************************************)

\* variant: the arrays are allocated but the matter temperature is not filled in
NewVector_TmatNotFilled(ap, y, dy) ==
  [index |-> DefineIndices(VectorVars(ap), 0), tv_size |-> Len(VectorVars(ap)),
   y |-> [v \in DOMAIN y |-> IF v = "Tmat" THEN 0 ELSE y[v]], dy |-> dy]

NewVector(ap, y, dy) ==
  [index |-> DefineIndices(VectorVars(ap), 0), tv_size |-> Len(VectorVars(ap)),
   y |-> y, dy |-> dy]

thermodynamics_vector_init(ap, z, scheme, old, w, rp) ==
  CASE ap = index_ap_brec ->
         [tv |-> NewVector(ap, [v \in {"Tmat"} |-> Tcmb * (ZScale + z.n)],
                           [v \in {"Tmat"} |-> -Tcmb]),
          w |-> [w EXCEPT !.Tmat = Tcmb * (ZScale + z.n), !.dTmat = Tcmb,
                          !.require_H = FALSE, !.require_He = FALSE]]
    [] ap = index_ap_H ->
         LET w1 == [w EXCEPT !.Tmat = old.y["Tmat"], !.dTmat = -old.dy["Tmat"]]
             a == thermodynamics_x_analytic(z, scheme, w1, rp, ap - 1)
         IN [tv |-> NewVector(ap,
                      [v \in {"Tmat", "x_He"} |->
                         IF v = "Tmat" THEN old.y["Tmat"] ELSE a.w.x_He],
                      [v \in {"Tmat", "x_He"} |->
                         IF v = "Tmat" THEN old.dy["Tmat"] ELSE Neg(a.w.dx_He)]),
             w |-> [a.w EXCEPT !.require_H = FALSE, !.require_He = TRUE]]
    [] ap = index_ap_frec ->
         LET w1 == [w EXCEPT !.Tmat = old.y["Tmat"], !.dTmat = -old.dy["Tmat"]]
             a == thermodynamics_x_analytic(z, scheme, w1, rp, ap - 1)
         IN [tv |-> NewVector(ap,
                      [v \in {"Tmat", "x_He", "x_H"} |->
                         IF v = "x_H" THEN a.w.x_H ELSE old.y[v]],
                      [v \in {"Tmat", "x_He", "x_H"} |->
                         IF v = "x_H" THEN Neg(a.w.dx_H) ELSE old.dy[v]]),
             w |-> [a.w EXCEPT !.require_H = TRUE, !.require_He = TRUE]]
    [] ap = index_ap_reio ->
         [tv |-> NewVector(ap, [v \in {"Tmat", "x_He", "x_H"} |-> old.y[v]],
                           [v \in {"Tmat", "x_He", "x_H"} |-> old.dy[v]]),
          w |-> [w EXCEPT !.require_H = TRUE, !.require_He = TRUE]]
    [] OTHER ->
         [tv |-> NewVector(ap, [v \in {"Tmat"} |-> old.y["Tmat"]],
                           [v \in {"Tmat"} |-> old.dy["Tmat"]]),
          w |-> [w EXCEPT !.Tmat = old.y["Tmat"], !.dTmat = -old.dy["Tmat"],
                          !.require_H = FALSE, !.require_He = FALSE]]


(***************************************************************************)
(* thermodynamics_solve_derivs (RECFAST branch) at redshift z, called by   *)
(* the evolver with its array y: what the call leaves in the workspace and *)
(* in the parameter array.  The derivative kernels are terms over the      *)
(* point they are evaluated at.                                            *)
(***************************************************************************)

\* the one value of a set that holds one: the result of a computation whose
\* intermediate results are bound once
Only(S) == CHOOSE v \in S : TRUE

\* x_H + fHe * x_He once at least one of the two comes from the evolver
XFromY(z, w) == SymAt("x_H+fHe*x_He", z, w.Tmat, 0)

DxFromY(z, w) == SymAt("dx_H+fHe*dx_He", z, w.Tmat, 0)

thermodynamics_solve_derivs(z, y, tvec, scheme, w, rp, ap) ==
  LET w1 == [w EXCEPT !.Tmat = tvec.y["Tmat"], !.dTmat = -tvec.dy["Tmat"]]
  IN Only({
       LET x_He == IF w.require_He THEN y["x_He"] ELSE a.w.x_He
           x_H == IF w.require_H THEN y["x_H"] ELSE a.w.x_H
           dx_He == IF w.require_He
                    THEN SymAt("recfast_dx_He_dz", z, w1.Tmat, 0)
                    ELSE a.w.dx_He
           dx_H == IF w.require_H
                   THEN SymAt("recfast_dx_H_dz", z, w1.Tmat, 0)
                   ELSE a.w.dx_H
           x == IF w.require_He \/ w.require_H THEN XFromY(z, w1)
                ELSE a.w.x
           dx == IF ap \in {index_ap_H, index_ap_frec, index_ap_reio}
                 THEN DxFromY(z, w1) ELSE a.w.dx
       IN IF a.status # "ok"
          THEN [status |-> a.status, w |-> a.w, rp |-> a.rp, wild |-> a.wild]
          ELSE Only({
                 IF b.status # "ok"
                 THEN [status |-> b.status, w |-> b.w, rp |-> b.rp,
                       wild |-> b.wild]
                 ELSE [status |-> "ok",
                       w |-> Save(a.w,
                              [x_H |-> x_H, x_He |-> x_He,
                               dx_H |-> dx_H, dx_He |-> dx_He,
                               x |-> IF ap = index_ap_reio THEN b.w.x ELSE x,
                               dx |-> IF ap = index_ap_reio
                                      THEN SymAt("dx_reio+dx_H+fHe*dx_He",
                                               z, w1.Tmat, 0)
                                      ELSE dx]),
                       rp |-> b.rp, wild |-> FALSE] :
                 \* during reionization x is recomputed by the analytic formula
                 b \in {IF ap = index_ap_reio
                        THEN thermodynamics_x_analytic(
                               z, scheme, [a.w EXCEPT !.x = x], a.rp, ap)
                        ELSE a}}) :
       a \in {thermodynamics_x_analytic(z, scheme, w1, rp, ap)}})

(***************************************************************************)
(* The state of one call of thermodynamics_init.                           *)
(***************************************************************************)

VARIABLES
  pc,              \* the step thermodynamics_init is at
  inp,             \* the input fields of struct thermo and struct precision
  error_message,   \* pth->error_message
  heap,            \* the buffers allocated and not yet freed
  z_table,         \* pth->z_table
  interval_limit,  \* the array of thermodynamics_solve (position 1 is [0])
  index_interval,  \* the loop index of thermodynamics_solve
  ptdw,            \* the thermo_diffeq_workspace
  tv,              \* ptw->ptdw->tv
  ptvs,            \* the vector evolve_with_tau keeps the initial conditions in
  ptrp,            \* the reionization parameter array
  bis,             \* the locals of evolve_with_tau
  out,             \* the outputs pth->z_reio and pth->tau_reio
  rows,            \* the rows of the table the sample sink was asked to write
  calls,           \* history: one entry per call of the evolver
  trial_y0,        \* history: the y the latest bisection trial was started from
  cache0,          \* history: the vector of the reio phase as vector_init left it
  phases,          \* history: the values ap_current was given, in order
  y_final,         \* history: y of the previous phase when the current one started
  qry,             \* per calling thread: the arguments and locals of thermodynamics_at_z
  smp,             \* the latest call of the sample sink: its arguments and what it stored
  tab,             \* pth->thermodynamics_table in the derived-quantity pass, column by column
  rq,              \* the inputs, locals and outputs of the derived-quantity pass
  inj              \* the heating parameters and the latest call of the energy-injection routine

vars ==
  <<pc, inp, error_message, heap, z_table, interval_limit, index_interval,
    ptdw, tv, ptvs, ptrp, bis, out, rows, calls, trial_y0, cache0, phases,
    y_final, qry, smp, tab, rq, inj>>

\* the state of thermodynamics_init
init_vars ==
  <<pc, inp, error_message, heap, z_table, interval_limit, index_interval,
    ptdw, tv, ptvs, ptrp, bis, out, rows, calls, trial_y0, cache0, phases,
    y_final>>

\* the state of the routines that are modelled call by call
call_vars == <<smp, tab, rq, inj>>

\* the threads that call thermodynamics_at_z once the table is built
Threads == {"a", "b"}

\* a caller outside thermodynamics_at_z: its cursor, its output row and the
\* status of its latest call
IdleQuery ==
  [at |-> "idle", z |-> Exact(0), inter_mode |-> "inter_normal", last_index |-> 0,
   method |-> "none", inf |-> 0, pvecthermo |-> "unwritten", status |-> "none"]

\* the columns of pth->thermodynamics_table: those thermodynamics_indices
\* always defines, and r_d with pth->compute_damping_scale (the derivatives
\* of cb2 are not asked for)
Columns(damping) ==
  {"xe", "Tb", "cb2", "dkappa", "ddkappa", "dddkappa", "g", "tau_d",
   "exp_m_kappa", "dg", "ddg", "rate"}
    \cup (IF damping THEN {"r_d"} ELSE {})

\* pth->thermodynamics_table before thermodynamics_lists allocates it
NoTable == [c \in Columns(FALSE) |-> << >>]

\* a cell of the table: what was stored in it last, the row of the table
\* that value belongs to, and its number where a search reads it
Cell(what, row, val) == [what |-> what, row |-> row, val |-> val]

\* pth->thermodynamics_table as thermodynamics_lists allocates it
AllocatedTable(damping) ==
  [c \in Columns(damping) |-> [i \in 1 .. Nz_tot |-> Cell("unset", i - 1, 0)]]

\* the inputs, locals and outputs of the derived-quantity pass before it
\* starts; pth->d2thermodynamics_dz2_table is kept as what was stored in it
NoResults ==
  [compute_damping_scale |-> FALSE,
   d2thermodynamics_dz2_table |-> "unset",
   boundary_num |-> 0, boundary_den |-> 1,
   index_tau |-> 0, index_tau_max |-> 0, fit_row |-> 0, g_max |-> 0,
   rd_lo |-> Unassigned, rd_hi |-> Unassigned,
   free_streaming_row |-> 0, cut_row |-> 0, z_d |-> Unassigned, drag_row |-> 0]

\* the sink has not been called yet
NoSample ==
  [called |-> FALSE, running |-> FALSE, ap_current |-> 0, z |-> Exact(0),
   index_z |-> 0, blended |-> FALSE, s_num |-> 0, s_den |-> 1,
   x |-> Indeterminate, x_new |-> Indeterminate, x_previous |-> Indeterminate]

\* the rate of an energy injection as its coefficients: of
\* rho_cdm_today^2/c^2, of rho_cdm_today^2/c^2*erfc and of rho_cdm_today
\* (all three positive quantities)
Rate(kind, annihilation, halo, decay) ==
  [kind |-> kind, annihilation |-> annihilation, halo |-> halo, decay |-> decay]

\* *energy_rate = 0.
ZeroRate == Rate("zero", 0, 0, 0)

\* "energy injection parameters": the fields thermodynamics_workspace_init
\* copies into ptw->pthp
HeatingParameters(i) ==
  [annihilation |-> i.annihilation,
   has_on_the_spot |-> i.heat.has_on_the_spot,
   annihilation_variation |-> i.heat.annihilation_variation,
   annihilation_z |-> i.heat.annihilation_z,
   annihilation_zmax |-> i.heat.annihilation_zmax,
   annihilation_zmin |-> i.heat.annihilation_zmin,
   decay |-> i.heat.decay,
   annihilation_f_halo |-> i.heat.annihilation_f_halo,
   annihilation_z_halo |-> i.heat.annihilation_z_halo]

\* ptw->pthp is not allocated yet and the energy-injection routine has not
\* been called
NoInjection ==
  [pthp |-> [annihilation |-> 0, has_on_the_spot |-> FALSE,
             annihilation_variation |-> 0, annihilation_z |-> 0,
             annihilation_zmax |-> 0, annihilation_zmin |-> 0, decay |-> 0,
             annihilation_f_halo |-> 0, annihilation_z_halo |-> 0],
   called |-> FALSE, z |-> 0, energy_rate |-> ZeroRate]

NoBisection ==
  [z_sup |-> 0, z_inf |-> 0, z_mid |-> 0, tau_sup |-> 0, tau_inf |-> 0,
   tau_mid |-> 0, counter |-> 0]

\* the state before thermodynamics_init is called with one of `inputs` and
\* pth->compute_damping_scale one of `requests`
InitRequesting(inputs, requests) ==
  /\ pc = "init"
  /\ inp \in inputs
  /\ error_message = ""
  /\ heap = {}
  /\ z_table = << >>
  /\ interval_limit = << >>
  /\ index_interval = 0
  /\ ptdw = EmptyWorkspace
  /\ tv = NoVector
  /\ ptvs = NoVector
  /\ ptrp = EmptyReioParams
  /\ bis = NoBisection
  /\ out = [z_reio |-> inp.pth.z_reio, tau_reio |-> inp.tau_reio,
            reionization_optical_depth |-> 0, z_rec |-> Unassigned]
  /\ rows = {}
  /\ calls = << >>
  /\ trial_y0 = << >>
  /\ cache0 = NoVector
  /\ phases = << >>
  /\ y_final = << >>
  /\ qry = [t \in Threads |-> IdleQuery]
  /\ smp = NoSample
  /\ inj = NoInjection
  /\ tab = NoTable
  /\ rq \in {[NoResults EXCEPT !.compute_damping_scale = d] : d \in requests}

\* the same without the damping scale
InitWith(inputs) == InitRequesting(inputs, {FALSE})

Init == InitWith(Inputs)

\* class_call / class_test / class_alloc taking its error branch
Fail(msg) ==
  /\ pc' = "failure"
  /\ error_message' = msg

\* thermodynamics_init up to and including the parameter test; with
\* pth->YHe == _YHE_BBN_ the helium fraction is first taken from the BBN file
ThermodynamicsInit ==
  /\ pc = "init"
  /\ \E bbn \in {IF inp.YHe = YHE_BBN THEN thermodynamics_helium_from_bbn(inp)
                  ELSE [status |-> "ok", YHe |-> inp.YHe]} :
       /\ inp' = [inp EXCEPT !.YHe = bbn.YHe]
       /\ \E r \in {IF bbn.status # "ok" THEN bbn.status
                     ELSE thermodynamics_test_parameters(
                            [inp EXCEPT !.YHe = bbn.YHe])} :
            IF r # "ok"
            THEN /\ Fail(r)
                 /\ heap' = {"pvecback"}
            ELSE /\ pc' = "workspace_init"
                 /\ heap' = {"pvecback", "ptw"}
                 /\ UNCHANGED error_message
  /\ UNCHANGED <<z_table, interval_limit, index_interval, ptdw, tv, ptvs,
                 ptrp, bis, out, rows, calls, trial_y0, cache0>>
  /\ UNCHANGED <<phases, y_final>>
  /\ UNCHANGED <<qry, call_vars>>

WorkspaceInit ==
  /\ pc = "workspace_init"
  /\ pc' = "indices"
  /\ heap' = heap \cup WorkspaceInitAllocs
  /\ inj' = [inj EXCEPT !.pthp = HeatingParameters(inp)]
  /\ UNCHANGED <<inp, error_message, z_table, interval_limit, index_interval,
                 ptdw, tv, ptvs, ptrp, bis, out, rows, calls, trial_y0, cache0>>
  /\ UNCHANGED <<phases, y_final>>
  /\ UNCHANGED <<qry, smp, tab, rq>>

\* thermodynamics_indices followed by thermodynamics_lists
IndicesAndLists ==
  /\ pc = "indices"
  /\ pc' = "solve"
  /\ heap' = heap \cup ListsAllocs
  /\ z_table' = thermodynamics_lists(inp.thermo_z_initial, inp.thermo_z_linear)
  /\ tab' = AllocatedTable(rq.compute_damping_scale)
  /\ UNCHANGED <<inp, error_message, interval_limit, index_interval, ptdw, tv,
                 ptvs, ptrp, bis, out, rows, calls, trial_y0, cache0>>
  /\ UNCHANGED <<phases, y_final>>
  /\ UNCHANGED <<qry, smp, rq, inj>>

\* mz_output[i] = -z_table[tt_size-1-i]
mz_output(zt) == [n \in 1 .. Len(zt) |-> Opposite(zt[Len(zt) + 1 - n])]

\* variant: the first limit is taken one grid point after z_initial
IntervalLimits_LateStart(zt) ==
  [n \in 1 .. ap_size + 1 |->
     IF n = 1 THEN mz_output(zt)[2]
     ELSE IF n = ap_size + 1 THEN mz_output(zt)[Nz_tot]
     ELSE Exact(-ap_z_limits[n - 2])]

\* the ap_size+1 interval limits of thermodynamics_solve
IntervalLimits(zt) ==
  [n \in 1 .. ap_size + 1 |->
     IF n = 1 THEN mz_output(zt)[1]
     ELSE IF n = ap_size + 1 THEN mz_output(zt)[Nz_tot]
     ELSE Exact(-ap_z_limits[n - 2])]

\* thermodynamics_solve up to the loop over the intervals
SolveSetup ==
  /\ pc = "solve"
  /\ LET r == thermodynamics_set_parameters_reionization(inp, inp.pth)
     IN IF r.status # "ok"
        THEN /\ Fail(r.status)
             /\ heap' = heap \cup {"reionization_parameters"}
             /\ ptrp' = r.rp
             /\ UNCHANGED <<interval_limit, index_interval>>
        ELSE /\ pc' = "vector_init"
             /\ heap' = heap \cup {"reionization_parameters", "mz_output",
                                   "interval_limit"}
             /\ ptrp' = r.rp
             /\ interval_limit' = IntervalLimits(z_table)
             /\ index_interval' = 0
             /\ UNCHANGED error_message
  /\ UNCHANGED <<inp, z_table, ptdw, tv, ptvs, bis, out, rows, calls,
                 trial_y0, cache0>>
  /\ UNCHANGED <<phases, y_final>>
  /\ UNCHANGED <<qry, call_vars>>


InTauMode == inp.reio_z_or_tau = "reio_tau"

Scheme == inp.reio_parametrization

\* the loop header of thermodynamics_solve and thermodynamics_vector_init
VectorInit ==
  /\ pc = "vector_init"
  /\ index_interval < ap_size
  /\ LET r == thermodynamics_vector_init(index_interval,
                                         Opposite(interval_limit[index_interval + 1]),
                                         Scheme, tv, ptdw, ptrp)
     IN /\ tv' = r.tv
        /\ ptdw' = r.w
        /\ cache0' = IF index_interval = index_ap_reio THEN r.tv ELSE cache0
  /\ heap' = heap \cup {"tv"}
  /\ pc' = IF InTauMode /\ index_interval = index_ap_reio
           THEN "bisect_init" ELSE "evolve"
  /\ UNCHANGED <<inp, error_message, z_table, interval_limit, index_interval,
                 ptvs, ptrp, bis, out, rows, calls, trial_y0>>
  /\ phases' = Append(phases, index_interval)
  /\ y_final' = tv.y
  /\ UNCHANGED <<qry, call_vars>>

(***************************************************************************)
(* thermodynamics_solve_store_sources, the sample sink the evolver calls   *)
(* at the output redshifts of the interval it integrates: what the call    *)
(* leaves in the workspace, in the parameter array, in pth->z_table and in *)
(* the row of pth->thermodynamics_table.  The ionization fraction is kept  *)
(* as a term and s as the fraction s_num / s_den.                          *)
(***************************************************************************)

\* x_H + fHe * x_He of the two values given
IonizedFraction(x_H, x_He) ==
  [kind |-> "x_H+fHe*x_He", x_H |-> x_H, x_He |-> x_He, neg |-> FALSE]

\* weight*x + (1.-weight)*x_previous with weight = f2(s_num / s_den)
Blend(s_num, s_den, x, x_previous) ==
  [kind |-> "blend", s_num |-> s_num, s_den |-> s_den, x |-> x,
   x_previous |-> x_previous]

\* "Smoothing if we are shortly after an approximation switch"
SmoothingApplies(ap_current, z) ==
  /\ ap_current # 0
  /\ Less(Exact(ap_z_limits[ap_current - 1]
             - 2 * ap_z_limits_delta[ap_current]), z)

\* x of the current phase, after the call of thermodynamics_x_analytic that
\* left the workspace w
XOfPhase(ap, y, w) ==
  CASE ap = index_ap_H -> IonizedFraction(w.x_H, y["x_He"])
    [] ap = index_ap_frec -> IonizedFraction(y["x_H"], y["x_He"])
    [] OTHER -> w.x

\* "store the results in the table": z_table[Nz-index_z-1] and the columns
\* xe, Tb, cb2 and dkappa of that row; dkappa, (1+z)^2 n_H x sigma_T, is
\* kept as a number that grows with the row
StoreRow(t, row, y) ==
  [c \in DOMAIN t |->
     CASE c = "xe" -> [t[c] EXCEPT ![row + 1] = Cell("xe", row, 0)]
       [] c = "Tb" -> [t[c] EXCEPT ![row + 1] = Cell("Tb", row, y["Tmat"])]
       [] c = "cb2" -> [t[c] EXCEPT ![row + 1] = Cell("cb2", row, 0)]
       [] c = "dkappa" -> [t[c] EXCEPT ![row + 1] = Cell("dkappa", row, row + 1)]
       [] OTHER -> t[c]]

thermodynamics_solve_store_sources(mz, y, dy, index_z, ap_current, scheme, w, rp, zt, t) ==
  LET z == Opposite(mz)
      row == Len(zt) - index_z - 1
      w1 == [w EXCEPT !.Tmat = y["Tmat"], !.dTmat = -dy["Tmat"]]
      blended == SmoothingApplies(ap_current, z)
      s_num == IF blended THEN ap_z_limits[ap_current - 1] - z.n ELSE 0
      s_den == IF blended THEN 2 * ap_z_limits_delta[ap_current] ELSE 1
      args == [NoSample EXCEPT !.called = TRUE, !.ap_current = ap_current,
                               !.z = z, !.index_z = index_z]
  IN Only({
       IF a.status # "ok"
       THEN [status |-> a.status, w |-> a.w, rp |-> a.rp, wild |-> a.wild,
             z_table |-> zt, tab |-> t, smp |-> args]
       ELSE Only({
              Only({
                [status |-> "ok", w |-> b.w, rp |-> b.rp, wild |-> FALSE,
                 z_table |-> [zt EXCEPT ![row + 1] = z],
                 tab |-> StoreRow(t, row, y),
                 smp |-> [args EXCEPT
                            !.blended = blended,
                            !.s_num = s_num, !.s_den = s_den,
                            !.x_new = x_new, !.x_previous = x_previous,
                            !.x = IF blended
                                  THEN Blend(s_num, s_den, x_new, x_previous)
                                  ELSE x_new]] :
                x_new \in {XOfPhase(ap_current, y, a.w)},
                x_previous \in {IF blended
                                THEN XOfPhase(ap_current - 1, y, b.w)
                                ELSE Indeterminate}}) :
              b \in {IF blended
                     THEN thermodynamics_x_analytic(z, scheme, a.w, a.rp,
                                                    ap_current - 1)
                     ELSE a}}) :
       a \in {IF ap_current = index_ap_frec
              THEN [status |-> "ok", w |-> w1, rp |-> rp, wild |-> FALSE]
              ELSE thermodynamics_x_analytic(
                     z, scheme,
                     IF ap_current = index_ap_reio
                     THEN [w1 EXCEPT !.x = IonizedFraction(y["x_H"], y["x_He"])]
                     ELSE w1,
                     rp, ap_current)}})

(***************************************************************************)
(* generic_evolver.  The evolver calls thermodynamics_solve_derivs first   *)
(* at the start of the interval and last at its end, hands the sample sink *)
(* the grid points of the interval in the order of mz_output, and writes   *)
(* the final values to the y array it was given; a failure of a callback   *)
(* or of the evolver itself makes it return _FAILURE_.  The sink is handed *)
(* the initial y at the start of the interval and the y the evolver ends   *)
(* with elsewhere.                                                         *)
(***************************************************************************)

\* the possible contents of y when the evolver returns
FinalStates(tvec) ==
  { [v \in Vars(tvec) |-> IF v = "Tmat" THEN l ELSE Evolved(l)] : l \in Levels }

mz_ini == interval_limit[index_interval + 1]

mz_end == interval_limit[index_interval + 2]

SampledRows ==
  {n \in 1 .. Len(z_table) : /\ AtMost(mz_ini, Opposite(z_table[n]))
                              /\ AtMost(Opposite(z_table[n]), mz_end)}

\* the index_z of the outputs of the current interval
Outputs == {Len(z_table) - n : n \in SampledRows}

LogCall == Append(calls, [ap |-> index_interval, mz_ini |-> mz_ini, mz_end |-> mz_end])

\* a call of thermodynamics_solve_derivs by the evolver in the current interval
Derivs(z, y, w, rp) ==
  thermodynamics_solve_derivs(z, y, tv, Scheme, w, rp, index_interval)

\* a call of the sink by the evolver for output index_z, from the state st
\* the callbacks have left so far
Store(index_z, y, st) ==
  LET mz == mz_output(z_table)[index_z + 1]
  IN Only({
       [status |-> r.status, w |-> r.w, rp |-> r.rp, wild |-> r.wild,
        z_table |-> r.z_table, tab |-> r.tab, smp |-> r.smp,
        rows |-> IF r.status = "ok"
                 THEN st.rows \cup {Len(z_table) - index_z}
                 ELSE st.rows] :
       r \in {thermodynamics_solve_store_sources(
                mz, IF mz = mz_ini THEN tv.y ELSE y, tv.dy, index_z,
                index_interval, Scheme, st.w, st.rp, st.z_table, st.tab)}})

\* the outputs index_z, index_z + 1, ... of the interval handed to the sink
\* in turn, up to the first call that fails
RECURSIVE StoreAll(_, _, _)
StoreAll(index_z, y, st) ==
  IF index_z >= Len(z_table) \/ st.status # "ok" THEN st
  ELSE IF index_z \notin Outputs THEN StoreAll(index_z + 1, y, st)
  ELSE Only({StoreAll(index_z + 1, y, next) : next \in {Store(index_z, y, st)}})

\* the state of the callbacks when the evolver has made its first call of
\* thermodynamics_solve_derivs, or where the outputs handed so far left it
Started(rp) ==
  IF smp.running
  THEN [status |-> "ok", w |-> ptdw, rp |-> rp, wild |-> FALSE,
        z_table |-> z_table, tab |-> tab, smp |-> smp, rows |-> rows]
  ELSE Only({[status |-> first.status, w |-> first.w, rp |-> first.rp,
              wild |-> first.wild, z_table |-> z_table, tab |-> tab,
              smp |-> smp, rows |-> rows] :
             first \in {Derivs(Opposite(mz_ini), tv.y, ptdw, rp)}})

\* the next output the evolver hands to the sink
NextOutput == IF smp.running THEN smp.index_z + 1 ELSE 0

\* one run of the evolver over the current interval that ends with y: the
\* first derivative call, the outputs, the last derivative call
\* (the outputs left and the last call)
Finished(y, st) ==
  LET done == [st EXCEPT !.smp = [st.smp EXCEPT !.running = FALSE]]
  IN IF st.status # "ok" THEN done
     ELSE Only({[done EXCEPT !.status = last.status, !.w = last.w,
                             !.rp = last.rp, !.wild = last.wild] :
                last \in {Derivs(Opposite(mz_end), y, st.w, st.rp)}})

EvolverRun(y, rp) ==
  Only({Only({Finished(y, st) : st \in {StoreAll(NextOutput, y, st0)}}) :
        st0 \in {Started(rp)}})

\* the evolver returns _SUCCESS_ in an interval integrated directly
EvolveOk ==
  /\ pc = "evolve"
  /\ \E y \in FinalStates(tv) :
       \E run \in {EvolverRun(y, ptrp)} :
         /\ run.status = "ok"
         /\ tv' = [tv EXCEPT !.y = y]
         /\ ptdw' = run.w
         /\ ptrp' = run.rp
         /\ z_table' = run.z_table
         /\ tab' = run.tab
         /\ smp' = run.smp
         /\ rows' = run.rows
  /\ calls' = LogCall
  /\ index_interval' = index_interval + 1
  /\ pc' = IF index_interval + 1 < ap_size THEN "vector_init" ELSE "solve_end"
  /\ UNCHANGED <<inp, error_message, heap, interval_limit, ptvs, bis,
                 out, trial_y0, cache0>>
  /\ UNCHANGED <<phases, y_final>>
  /\ UNCHANGED <<qry, rq, inj>>

\* the evolver gives up (step size, iteration cap, a failing kernel)
EvolverFail ==
  /\ pc = "evolve"
  /\ Started(ptrp).status = "ok"
  /\ Fail("evolver: integration failed")
  /\ calls' = LogCall
  /\ UNCHANGED <<inp, heap, z_table, interval_limit, index_interval, ptdw, tv,
                 ptvs, ptrp, bis, out, rows, trial_y0, cache0>>
  /\ UNCHANGED <<phases, y_final>>
  /\ UNCHANGED <<qry, call_vars>>

\* a callback returns _FAILURE_: thermodynamics_solve_derivs at its first or
\* its last call, or the sink at an output.  If the call stored through an
\* index that was never set, the behaviour is undefined from there on.
DerivsError ==
  /\ pc = "evolve"
  /\ \E y \in FinalStates(tv) :
       \E run \in {EvolverRun(y, ptrp)} :
         /\ run.status # "ok"
         /\ \/ Fail(run.status)
            \/ /\ run.wild
               /\ pc' = "undefined_behaviour"
               /\ UNCHANGED error_message
         /\ ptdw' = run.w
         /\ ptrp' = run.rp
         /\ z_table' = run.z_table
         /\ tab' = run.tab
         /\ smp' = run.smp
         /\ rows' = run.rows
  /\ calls' = LogCall
  /\ UNCHANGED <<inp, heap, interval_limit, index_interval, tv, ptvs,
                 bis, out, trial_y0, cache0>>
  /\ UNCHANGED <<phases, y_final>>
  /\ UNCHANGED <<qry, rq, inj>>

(***************************************************************************)
(* thermodynamics_reionization_evolve_with_tau: the bisection on z_reio.   *)
(***************************************************************************)

\* the three class_define_index of the temporary vector, from the value the
\* local index_tv happens to hold
TemporaryVector(index_tv, cached) ==
  [index |-> DefineIndices(<<"Tmat", "x_He", "x_H">>, index_tv),
   tv_size |-> index_tv + 3,
   y |-> [v \in {"Tmat", "x_He", "x_H"} |-> cached.y[v]],
   dy |-> [v \in {"Tmat", "x_He", "x_H"} |-> cached.dy[v]]]

\* variant: the temporary vector is left as the trial left it
RestoreInitialConditions_Skipped(ptv, cached) == ptv

\* "Restore initial conditions"
RestoreInitialConditions(ptv, cached) ==
  [ptv EXCEPT !.y = [v \in {"Tmat", "x_He", "x_H"} |-> cached.y[v]],
              !.dy = [v \in {"Tmat", "x_He", "x_H"} |-> cached.dy[v]]]

\* the condition of the while loop
NotConverged(tau_sup, tau_inf) ==
  (tau_sup - tau_inf) * ppr.tol_den > inp.tau_reio * ppr.tol_num

\* variant: the two branches of the bracket update exchanged
BracketUpdate_Swapped(b, z_mid, tau_mid) ==
  IF tau_mid > inp.tau_reio
  THEN [b EXCEPT !.z_inf = z_mid, !.tau_inf = tau_mid,
                 !.z_mid = z_mid, !.tau_mid = tau_mid]
  ELSE [b EXCEPT !.z_sup = z_mid, !.tau_sup = tau_mid,
                 !.z_mid = z_mid, !.tau_mid = tau_mid]

\* the update of the bracket after a trial
BracketUpdate(b, z_mid, tau_mid) ==
  IF tau_mid > inp.tau_reio
  THEN [b EXCEPT !.z_sup = z_mid, !.tau_sup = tau_mid,
                 !.z_mid = z_mid, !.tau_mid = tau_mid]
  ELSE [b EXCEPT !.z_inf = z_mid, !.tau_inf = tau_mid,
                 !.z_mid = z_mid, !.tau_mid = tau_mid]

\* variant: the iteration counter is never tested
CounterExceeded_NeverTested(counter) == FALSE

\* class_test(counter > _MAX_IT_, ...)
CounterExceeded(counter) == counter > MAX_IT

\* the starting redshift that goes with a trial redshift
StartOf(z_mid) ==
  LET start_H == z_mid + ppr.reionization_start_factor * inp.pth.reionization_width
      start_He == inp.pth.helium_fullreio_redshift
                    + ppr.reionization_start_factor * inp.pth.helium_fullreio_width
  IN IF start_H < start_He THEN start_He ELSE start_H

\* the values thermodynamics_reionization_get_tau can leave in
\* ptw->reionization_optical_depth
OpticalDepths == 0 .. MaxTau

\* i = 0; while (z_table[i] < reionization_parameters[index_reio_start]) i++,
\* with the class_test(i == tt_size) after each increment
RECURSIVE ReioStartRow(_, _, _)
ReioStartRow(zt, start, i) ==
  IF i < Len(zt) /\ Less(zt[i + 1], Exact(start))
  THEN ReioStartRow(zt, start, i + 1) ELSE i

\* array_spline_table_line_to_line over the first n_lines rows: the second
\* derivative of dkappa with respect to tau goes to the column dddkappa of
\* these rows
SplineBelowStart(t, n_lines) ==
  [t EXCEPT !["dddkappa"] =
     [k \in DOMAIN @ |->
        IF k <= n_lines THEN Cell("d2(dkappa) below reio_start", k - 1, 0)
        ELSE @[k]]]

\* the search of the row where reionization starts, the spline of dkappa up
\* to that row and the integral tau the array routine returns for it
thermodynamics_reionization_get_tau(zt, t, rp, tau) ==
  LET integration_index == ReioStartRow(zt, rp.reio_start, 0)
  IN IF integration_index = Len(zt)
     THEN [status |-> "reionization_z_start_max > largest redshift in thermodynamics table",
           tab |-> t, reionization_optical_depth |-> 0]
     ELSE [status |-> "ok", tab |-> SplineBelowStart(t, integration_index),
           reionization_optical_depth |-> tau]

\* from the entry of the routine to the first call of the evolver
BisectInit ==
  /\ pc = "bisect_init"
  /\ \E index_tv \in GarbageIndex :
       IF index_tv < 0
       THEN \* the copies into y[index] and dy[index] fall before the arrays
            /\ pc' = "undefined_behaviour"
            /\ tv' = tv
            /\ UNCHANGED <<error_message, ptrp, bis>>
       ELSE LET z_sup == ppr.reionization_z_start_max
                           - ppr.reionization_start_factor * inp.pth.reionization_width
            IN /\ tv' = TemporaryVector(index_tv, tv)
               /\ IF z_sup < 0
                  THEN /\ Fail("reionization cannot take place before today")
                       /\ UNCHANGED <<ptrp, bis>>
                  ELSE /\ pc' = "bisect_first"
                       /\ ptrp' = [ptrp EXCEPT !.reio_redshift = z_sup,
                                      !.reio_start = ppr.reionization_z_start_max]
                       /\ bis' = [bis EXCEPT !.z_sup = z_sup]
                       /\ UNCHANGED error_message
  /\ ptvs' = tv
  /\ heap' = heap \cup {"ptv"}
  /\ UNCHANGED <<inp, z_table, interval_limit, index_interval, ptdw, out, rows,
                 calls, trial_y0, cache0>>
  /\ UNCHANGED <<phases, y_final>>
  /\ UNCHANGED <<qry, call_vars>>

\* one successful run of the evolver over the reio interval from the
\* temporary vector, with parameter array rp and final values y, then
\* thermodynamics_reionization_get_tau returning tau (its class_test cannot
\* fire: reio_start was tested against reionization_z_start_max, which is
\* a point of the grid)
Trial(rp, y, tau) ==
  /\ \E run \in {EvolverRun(y, rp)} :
       \E g \in {thermodynamics_reionization_get_tau(
                   run.z_table, run.tab, run.rp, tau)} :
         /\ run.status = "ok"
         /\ g.status = "ok"
         /\ ptdw' = run.w
         /\ ptrp' = run.rp
         /\ z_table' = run.z_table
         /\ tab' = g.tab
         /\ smp' = run.smp
         /\ rows' = run.rows
         /\ out' = [out EXCEPT !.reionization_optical_depth =
                                  g.reionization_optical_depth]
  /\ calls' = LogCall
  /\ trial_y0' = tv.y

\* "Calculate a first ionization history at upper limit"
BisectFirst ==
  /\ pc = "bisect_first"
  /\ \E y \in FinalStates(tv), tau \in OpticalDepths :
       /\ Trial(ptrp, y, tau)
       /\ IF tau < inp.tau_reio
          THEN /\ Fail("reionization cannot start after z_start_max")
               /\ tv' = [tv EXCEPT !.y = y]
               /\ UNCHANGED bis
          ELSE /\ pc' = "bisect_loop"
               /\ tv' = RestoreInitialConditions([tv EXCEPT !.y = y], ptvs)
               /\ bis' = [bis EXCEPT !.tau_sup = tau, !.z_inf = 0, !.tau_inf = 0,
                                     !.counter = 0]
               /\ UNCHANGED error_message
  /\ UNCHANGED <<inp, heap, interval_limit, index_interval, ptvs, cache0>>
  /\ UNCHANGED <<phases, y_final>>
  /\ UNCHANGED <<qry, rq, inj>>

\* one pass through the body of the while loop
BisectIter ==
  /\ pc = "bisect_loop"
  /\ NotConverged(bis.tau_sup, bis.tau_inf)
  /\ LET z_mid == (bis.z_sup + bis.z_inf) \div 2
         rp == [ptrp EXCEPT !.reio_redshift = z_mid, !.reio_start = StartOf(z_mid)]
     IN IF rp.reio_start > ppr.reionization_z_start_max
        THEN /\ Fail("starting redshift for reionization > reionization_z_start_max")
             /\ ptrp' = rp
             /\ UNCHANGED <<ptdw, tv, bis, out, rows, calls, trial_y0>>
             /\ UNCHANGED <<z_table, tab, smp>>
        ELSE \E y \in FinalStates(tv), tau_mid \in OpticalDepths, r \in {rp} :
               /\ Trial(r, y, tau_mid)
               /\ tv' = RestoreInitialConditions([tv EXCEPT !.y = y], ptvs)
               /\ bis' = [BracketUpdate(bis, z_mid, tau_mid)
                            EXCEPT !.counter = bis.counter + 1]
               /\ IF CounterExceeded(bis.counter + 1)
                  THEN Fail("maximum number of iterations exceeded")
                  ELSE UNCHANGED <<pc, error_message>>
  /\ UNCHANGED <<inp, heap, interval_limit, index_interval, ptvs, cache0>>
  /\ UNCHANGED <<phases, y_final>>
  /\ UNCHANGED <<qry, rq, inj>>

\* the evolver gives up during a trial
TrialFail ==
  /\ \/ pc = "bisect_first"
     \/ /\ pc = "bisect_loop"
        /\ NotConverged(bis.tau_sup, bis.tau_inf)
        /\ StartOf((bis.z_sup + bis.z_inf) \div 2) <= ppr.reionization_z_start_max
  /\ Fail("evolver: integration failed")
  /\ ptrp' = IF pc = "bisect_first" THEN ptrp
             ELSE [ptrp EXCEPT !.reio_redshift = (bis.z_sup + bis.z_inf) \div 2,
                      !.reio_start = StartOf((bis.z_sup + bis.z_inf) \div 2)]
  /\ calls' = LogCall
  /\ trial_y0' = tv.y
  /\ UNCHANGED <<inp, heap, z_table, interval_limit, index_interval, ptdw, tv,
                 ptvs, bis, out, rows, cache0>>
  /\ UNCHANGED <<phases, y_final>>
  /\ UNCHANGED <<qry, call_vars>>

\* the loop is left: z_reio is stored and the temporary vector freed
BisectEnd ==
  /\ pc = "bisect_loop"
  /\ ~NotConverged(bis.tau_sup, bis.tau_inf)
  /\ out' = [out EXCEPT !.z_reio = ptrp.reio_redshift]
  /\ heap' = heap \ {"ptv"}
  /\ tv' = ptvs
  /\ index_interval' = index_interval + 1
  /\ pc' = "solve_end"
  /\ UNCHANGED <<inp, error_message, z_table, interval_limit, ptdw, ptvs, ptrp,
                 bis, rows, calls, trial_y0, cache0>>
  /\ UNCHANGED <<phases, y_final>>
  /\ UNCHANGED <<qry, call_vars>>

\* thermodynamics_solve after the loop over the intervals
SolveEnd ==
  /\ pc = "solve_end"
  /\ IF Scheme # "reio_none" /\ ~InTauMode
     THEN \E tau \in OpticalDepths :
            \E g \in {thermodynamics_reionization_get_tau(
                        z_table, tab, ptrp, tau)} :
              /\ tab' = g.tab
              /\ IF g.status # "ok"
                 THEN /\ Fail(g.status)
                      /\ UNCHANGED <<out, heap, tv>>
                 ELSE /\ out' = [out EXCEPT
                                   !.reionization_optical_depth =
                                      g.reionization_optical_depth,
                                   !.tau_reio = g.reionization_optical_depth]
                      /\ heap' = heap \ {"tv", "interval_limit", "mz_output"}
                      /\ tv' = NoVector
                      /\ pc' = "remaining"
                      /\ UNCHANGED error_message
     ELSE /\ heap' = heap \ {"tv", "interval_limit", "mz_output"}
          /\ tv' = NoVector
          /\ pc' = "remaining"
          /\ UNCHANGED <<out, tab, error_message>>
  /\ UNCHANGED <<inp, z_table, interval_limit, index_interval,
                 ptdw, ptvs, ptrp, bis, rows, calls, trial_y0, cache0>>
  /\ UNCHANGED <<phases, y_final>>
  /\ UNCHANGED <<qry, smp, rq, inj>>

(***************************************************************************)
(* thermodynamics_calculate_remaining_quantities, routine by routine, on   *)
(* the table thermodynamics_solve has filled.  A cell records what was     *)
(* stored in it last, the row of the table that value belongs to, and its  *)
(* number when the searches of the pass read it.  The numbers the          *)
(* background module and the array routines produce (tau_d, g) are inputs  *)
(* of the step that stores them.  Rows are numbered from 0 as in the code; *)
(* position i + 1 of a column is row i.                                    *)
(***************************************************************************)

tt_size == Len(z_table)

\* pth->tau_table: conformal time, decreasing with the row
tau_table(n) == [i \in 1 .. n |-> 2 * (n + 1 - i)]

\* the dkappa column the sample sink left, without and with a vanishing entry
DkappaColumns ==
  {[i \in 1 .. 6 |-> Cell("dkappa", i - 1, i)],
   [i \in 1 .. 6 |-> Cell("dkappa", i - 1, IF i = 3 THEN 0 ELSE i)]}

\* tau_d as array_integrate_spline_table_line_to_line leaves it, in halves:
\* zero in row 0, growing with the row; it crosses one inside the table, on
\* a row, in the last interval, or not at all
TauDColumns ==
  {<<0, 0, 0, 0, 0, 0>>, <<0, 0, 1, 4, 5, 6>>, <<0, 1, 2, 3, 4, 5>>,
   <<0, 0, 0, 0, 0, 3>>}

GValues == {0, 1, 2}

\* the visibility function the optical step can compute
GColumns == [1 .. 6 -> GValues]

SetColumn(t, c, col) == [t EXCEPT ![c] = col]

thermodynamics_calculate_conformal_drag_time(t, tau_d) ==
  LET n == Len(t["dkappa"])
      t1 == SetColumn(t, "ddkappa", [i \in 1 .. n |-> Cell("-1/R*dkappa", i - 1, 0)])
      t2 == SetColumn(t1, "dddkappa",
                      [i \in 1 .. n |-> Cell("d2(-1/R*dkappa)", i - 1, 0)])
  IN SetColumn(t2, "tau_d", [i \in 1 .. n |-> Cell("tau_d", i - 1, tau_d[i])])

\* variant: the boundary term divided by three once more
DampingBoundary_ExtraThird(tau_ini, dkappa_ini) ==
  [num |-> 16 * tau_ini, den |-> 3 * (15 * 6 * 3) * dkappa_ini]

\* 16./(15.*6.*3.)*tau_ini/dkappa_ini as a fraction
DampingBoundary(tau_ini, dkappa_ini) ==
  [num |-> 16 * tau_ini, den |-> (15 * 6 * 3) * dkappa_ini]

\* the scratch columns are filled in the order of growing time: position
\* k + 1 holds the value that belongs to row tt_size-1-k, in column g the
\* integral from tau_ini to the conformal time of that row.  A cell of r_d
\* is computed from the boundary term and the integral read from g: it is
\* kept as the row that integral belongs to, and the boundary term is kept
\* with the locals.
thermodynamics_calculate_damping_scale(t) ==
  LET n == Len(t["dkappa"])
      t1 == SetColumn(t, "ddkappa",
                      [i \in 1 .. n |-> Cell("damping integrand", n - i, 0)])
      t2 == SetColumn(t1, "dddkappa",
                      [i \in 1 .. n |-> Cell("d2(damping integrand)", n - i, 0)])
      t3 == SetColumn(t2, "g",
                      [i \in 1 .. n |-> Cell("damping integral", n - i, 0)])
  IN SetColumn(t3, "r_d",
               [i \in 1 .. n |-> Cell("r_d", t3["g"][n + 1 - i].row, 0)])

\* variant: the visibility is not stored back into the g column
OpticalRow_GNotStored(t, i, g) ==
  [c \in DOMAIN t |->
     CASE c = "exp_m_kappa" -> [t[c] EXCEPT ![i] = Cell("exp(-kappa)", i - 1, 0)]
       [] c = "dg" -> [t[c] EXCEPT ![i] = Cell("dg", i - 1, 0)]
       [] c = "ddg" -> [t[c] EXCEPT ![i] = Cell("ddg", i - 1, 0)]
       [] OTHER -> t[c]]

\* one pass of the loop of thermodynamics_calculate_opticals, up to the
\* class_test on dkappa; g = dkappa * expmkappa is g[i], the number the
\* exponential gives it, and zero where dkappa is zero
OpticalRow(t, i, g) ==
  [c \in DOMAIN t |->
     CASE c = "exp_m_kappa" -> [t[c] EXCEPT ![i] = Cell("exp(-kappa)", i - 1, 0)]
       [] c = "dg" -> [t[c] EXCEPT ![i] = Cell("dg", i - 1, 0)]
       [] c = "ddg" -> [t[c] EXCEPT ![i] = Cell("ddg", i - 1, 0)]
       [] c = "g" -> [t[c] EXCEPT ![i] =
                        Cell("g", i - 1,
                             IF t["dkappa"][i].val = 0 THEN 0 ELSE g[i])]
       [] OTHER -> t[c]]

\* the loop from the last row down to row 0; it returns at the first row
\* whose dkappa vanishes
RECURSIVE OpticalLoop(_, _, _)
OpticalLoop(t, i, g) ==
  IF i < 1 THEN [status |-> "ok", tab |-> t]
  ELSE LET t1 == OpticalRow(t, i, g)
       IN IF t1["dkappa"][i].val = 0
          THEN [status |-> "variation rate diverges", tab |-> t1]
          ELSE OpticalLoop(SetColumn(t1, "rate",
                                     [t1["rate"] EXCEPT ![i] = Cell("rate", i - 1, 0)]),
                           i - 1, g)

thermodynamics_calculate_opticals(t, g) ==
  LET n == Len(t["dkappa"])
      t1 == SetColumn(t, "dddkappa", [i \in 1 .. n |-> Cell("dddkappa", i - 1, 0)])
      t2 == SetColumn(t1, "ddkappa", [i \in 1 .. n |-> Cell("ddkappa", i - 1, 0)])
      t3 == SetColumn(t2, "g", [i \in 1 .. n |-> Cell("-kappa", i - 1, 0)])
  IN OpticalLoop(t3, n, g)

\* the dkappa column with the numbers of `dkappa`
Valued(t, dkappa) ==
  [t EXCEPT !["dkappa"] = [i \in DOMAIN @ |-> [@[i] EXCEPT !.val = dkappa[i].val]]]

\* thermodynamics_calculate_conformal_drag_time, the first step of
\* thermodynamics_calculate_remaining_quantities, on the numbers the
\* symbolic x stands for in dkappa
ConformalDragTime ==
  /\ pc = "remaining"
  /\ \E dkappa \in DkappaColumns, tau_d \in TauDColumns :
       tab' = thermodynamics_calculate_conformal_drag_time(
                Valued(tab, dkappa), tau_d)
  /\ pc' = "damping_scale"
  /\ UNCHANGED <<inp, error_message, heap, z_table, interval_limit,
                 index_interval, ptdw, tv, ptvs, ptrp, bis, out, rows, calls,
                 trial_y0, cache0, phases, y_final>>
  /\ UNCHANGED <<qry, smp, rq, inj>>

\* thermodynamics_calculate_damping_scale
DampingScale ==
  /\ pc = "damping_scale"
  /\ IF rq.compute_damping_scale
     THEN /\ tab' = thermodynamics_calculate_damping_scale(tab)
          /\ \E b \in {DampingBoundary(tau_table(tt_size)[tt_size],
                                       tab["dkappa"][tt_size].val)} :
               rq' = [rq EXCEPT !.boundary_num = b.num, !.boundary_den = b.den]
     ELSE UNCHANGED <<tab, rq>>
  /\ pc' = "opticals"
  /\ UNCHANGED <<inp, error_message, heap, z_table, interval_limit,
                 index_interval, ptdw, tv, ptvs, ptrp, bis, out, rows, calls,
                 trial_y0, cache0, phases, y_final>>
  /\ UNCHANGED <<qry, smp, inj>>

\* array_spline_table_lines has filled pth->d2thermodynamics_dz2_table
SecondDerivatives(q) ==
  [q EXCEPT !.d2thermodynamics_dz2_table = "d2/dz2 of thermodynamics_table"]

\* thermodynamics_calculate_opticals and array_spline_table_lines
Opticals ==
  /\ pc = "opticals"
  /\ \E g \in GColumns :
       \E r \in {thermodynamics_calculate_opticals(tab, g)} :
         /\ tab' = r.tab
         /\ IF r.status = "ok"
            THEN /\ pc' = "recombination_quantities"
                 /\ rq' = SecondDerivatives(rq)
                 /\ UNCHANGED error_message
            ELSE /\ Fail(r.status)
                 /\ UNCHANGED rq
  /\ UNCHANGED <<inp, heap, z_table, interval_limit,
                 index_interval, ptdw, tv, ptvs, ptrp, bis, out, rows, calls,
                 trial_y0, cache0, phases, y_final>>
  /\ UNCHANGED <<qry, smp, inj>>


\* a read of row i of a column of n rows stays inside the column
InTable(i, n) == 0 <= i /\ i < n

\* while (pth->z_table[index_tau] > _Z_REC_MAX_) index_tau--
RECURSIVE SkipAboveRecMax(_, _)
SkipAboveRecMax(zt, i) ==
  IF InTable(i, Len(zt)) /\ Less(Exact(Z(Z_REC_MAX)), zt[i + 1])
  THEN SkipAboveRecMax(zt, i - 1) ELSE i

\* while (g[index_tau+1] < g[index_tau]) index_tau--; the result is the
\* index at which the condition is false, or at which it reads outside
RECURSIVE ClimbVisibility(_, _)
ClimbVisibility(g, i) ==
  IF InTable(i, Len(g)) /\ InTable(i + 1, Len(g)) /\ g[i + 2].val < g[i + 1].val
  THEN ClimbVisibility(g, i - 1) ELSE i

\* while (1./dkappa[index_tau]/tau < trigger) index_tau--, with below[i + 1]
\* the value of the condition in row i
RECURSIVE FreeStreamingSearch(_, _)
FreeStreamingSearch(below, i) ==
  IF InTable(i, Len(below)) /\ below[i + 1]
  THEN FreeStreamingSearch(below, i - 1) ELSE i

\* while ((g[index_tau] > g_max * cut) && (index_tau > 0)) index_tau--
RECURSIVE VisibilityCut(_, _, _)
VisibilityCut(g, g_max, i) ==
  IF g[i + 1].val * ppr.cut_den > g_max * ppr.cut_num /\ i > 0
  THEN VisibilityCut(g, g_max, i - 1) ELSE i

RecResult(status, r) == [r EXCEPT !.status = status]

\* g_max = g[index_tau], index_tau_max = index_tau
GMaxRow(index_tau) == index_tau

\* the two class_test on pth->z_rec; a comparison with a NaN is false
RecombinationTests(z_rec) ==
  CASE z_rec.kind = "finite" ->
         IF z_rec.num + ppr.smallest_allowed_variation * z_rec.den
              >= Z(Z_REC_MAX) * z_rec.den
         THEN "found a recombination redshift greater or equal to z_rec_max"
         ELSE IF z_rec.num - ppr.smallest_allowed_variation * z_rec.den
                   <= Z(Z_REC_MIN) * z_rec.den
         THEN "found a recombination redshift smaller or equal to z_rec_min"
         ELSE "ok"
    [] z_rec.kind = "infinite" ->
         IF z_rec.num > 0
         THEN "found a recombination redshift greater or equal to z_rec_max"
         ELSE "found a recombination redshift smaller or equal to z_rec_min"
    [] OTHER -> "ok"

\* z_table[index_tau+1] + 0.5*(z_table[index_tau+1]-z_table[index_tau])
\*   * (g[index_tau]-g[index_tau+2]) / (g[index_tau]-2.*g[index_tau+1]+g[index_tau+2])
ThreePointFit(zt, g, i) ==
  LET dz == zt[i + 2].n - zt[i + 1].n
      num == g[i + 1].val - g[i + 3].val
      den == g[i + 1].val - 2 * g[i + 2].val + g[i + 3].val
  IN IF den = 0 THEN Quotient(dz * num, 0)
     ELSE Quotient(2 * den * zt[i + 2].n + dz * num, 2 * den)

\* the weights of rows index_tau and index_tau+1 in pth->rd_rec
DampingWeights(zt, z_rec, i) ==
  LET dz == zt[i + 2].n - zt[i + 1].n
  IN IF z_rec.kind = "finite"
     THEN [lo |-> Quotient(zt[i + 2].n * z_rec.den - z_rec.num, z_rec.den * dz),
           hi |-> Quotient(z_rec.num - zt[i + 1].n * z_rec.den, z_rec.den * dz)]
     ELSE [lo |-> NaN, hi |-> NaN]

thermodynamics_calculate_recombination_quantities(zt, t, damping, below) ==
  LET n == Len(zt)
      g == t["g"]
      none == [status |-> "ok", index_tau |-> 0, index_tau_max |-> 0,
               fit_row |-> 0, g_max |-> 0, z_rec |-> Unassigned,
               rd_lo |-> Unassigned, rd_hi |-> Unassigned,
               free_streaming_row |-> 0, cut_row |-> 0]
      i0 == SkipAboveRecMax(zt, n - 1)
  IN IF ~InTable(i0, n) \/ ~InTable(i0 + 1, n)
     THEN RecResult("out_of_bounds", [none EXCEPT !.index_tau = i0])
     ELSE IF g[i0 + 2].val > g[i0 + 1].val
     THEN RecResult("found a recombination redshift greater or equal to z_rec_max",
                    [none EXCEPT !.index_tau = i0])
     ELSE
     LET i == ClimbVisibility(g, i0)
     IN IF ~InTable(i, n) \/ ~InTable(i + 2, n)
        THEN RecResult("out_of_bounds", [none EXCEPT !.index_tau = i])
        ELSE
        LET z_rec == ThreePointFit(zt, g, i)
            r1 == [none EXCEPT !.index_tau = i, !.index_tau_max = GMaxRow(i),
                               !.g_max = g[GMaxRow(i) + 1].val,
                               !.fit_row = i + 1, !.z_rec = z_rec]
            r2 == IF damping
                  THEN [r1 EXCEPT !.rd_lo = DampingWeights(zt, z_rec, i).lo,
                                  !.rd_hi = DampingWeights(zt, z_rec, i).hi]
                  ELSE r1
            fsr == FreeStreamingSearch(below, i)
        IN IF RecombinationTests(z_rec) # "ok"
           THEN RecResult(RecombinationTests(z_rec), r1)
           ELSE IF ~InTable(fsr, n)
           THEN RecResult("out_of_bounds", [r2 EXCEPT !.index_tau = fsr])
           ELSE [r2 EXCEPT !.free_streaming_row = fsr,
                           !.cut_row = VisibilityCut(g, r2.g_max, r2.index_tau_max),
                           !.index_tau = VisibilityCut(g, r2.g_max, r2.index_tau_max)]

\* the locals and outputs of the recombination step, once it has returned
RecStored(q, r) ==
  [q EXCEPT !.index_tau = r.index_tau, !.index_tau_max = r.index_tau_max,
            !.g_max = r.g_max, !.fit_row = r.fit_row,
            !.rd_lo = r.rd_lo, !.rd_hi = r.rd_hi,
            !.free_streaming_row = r.free_streaming_row,
            !.cut_row = r.cut_row]

\* pth->z_rec after the recombination step
ZRecStored(o, r) ==
  IF r.z_rec.kind = "unassigned" THEN o ELSE [o EXCEPT !.z_rec = r.z_rec]


\* while ((tau_d[index_tau] < 1.) && (index_tau < tt_size)) index_tau++;
\* the condition reads the row before it tests the index (tau_d in halves)
RECURSIVE DragSearch(_, _)
DragSearch(tau_d, i) ==
  IF InTable(i, Len(tau_d)) /\ tau_d[i + 1].val < 2
  THEN DragSearch(tau_d, i + 1) ELSE i

\* variant: the search stops one row late
DragRow_Late(tau_d) == DragSearch(tau_d, 0) + 1

\* the value of index_tau after the loop
DragRow(tau_d) == DragSearch(tau_d, 0)

thermodynamics_calculate_drag_quantities(zt, t) ==
  LET n == Len(zt)
      tau_d == t["tau_d"]
      i == DragRow(tau_d)
  IN IF ~InTable(i, n) \/ ~InTable(i - 1, n)
     THEN [status |-> "out_of_bounds", z_d |-> Unassigned, drag_row |-> i]
     ELSE [status |-> "ok",
           z_d |-> Quotient(zt[i].n * (tau_d[i + 1].val - tau_d[i].val)
                              + (2 - tau_d[i].val) * (zt[i + 1].n - zt[i].n),
                            tau_d[i + 1].val - tau_d[i].val),
           drag_row |-> i]

\* the criterion of the free-streaming search, row by row: met from the
\* first row read, met in row 1 only, never met
StreamingPatterns ==
  {[i \in 1 .. 6 |-> FALSE], [i \in 1 .. 6 |-> i # 2], [i \in 1 .. 6 |-> TRUE]}

\* thermodynamics_calculate_recombination_quantities
RecombinationQuantities ==
  /\ pc = "recombination_quantities"
  /\ \E below \in StreamingPatterns :
       \E r \in {thermodynamics_calculate_recombination_quantities(
                   z_table, tab, rq.compute_damping_scale, below)} :
         /\ rq' = RecStored(rq, r)
         /\ out' = ZRecStored(out, r)
         /\ CASE r.status = "ok" ->
                   pc' = "drag_quantities" /\ UNCHANGED error_message
              [] r.status = "out_of_bounds" ->
                   pc' = "undefined_behaviour" /\ UNCHANGED error_message
              [] OTHER -> Fail(r.status)
  /\ UNCHANGED <<inp, heap, z_table, interval_limit,
                 index_interval, ptdw, tv, ptvs, ptrp, bis, rows, calls,
                 trial_y0, cache0, phases, y_final>>
  /\ UNCHANGED <<qry, smp, tab, inj>>

\* thermodynamics_calculate_drag_quantities
DragQuantities ==
  /\ pc = "drag_quantities"
  /\ \E r \in {thermodynamics_calculate_drag_quantities(z_table, tab)} :
       /\ rq' = [rq EXCEPT !.z_d = r.z_d, !.drag_row = r.drag_row]
       /\ pc' = IF r.status = "ok" THEN "workspace_free" ELSE "undefined_behaviour"
  /\ UNCHANGED <<inp, error_message, heap, z_table, interval_limit,
                 index_interval, ptdw, tv, ptvs, ptrp, bis, out, rows, calls,
                 trial_y0, cache0, phases, y_final>>
  /\ UNCHANGED <<qry, smp, tab, inj>>

\* the numbers the pass works with in a run of thermodynamics_init: those
\* the symbolic x stands for in dkappa, and those the background module and
\* the array routines give for tau_d, g and the free-streaming criterion
NominalPass ==
  [dkappa |-> [i \in 1 .. 6 |-> Cell("dkappa", i - 1, i)],
   tau_d |-> <<0, 0, 1, 4, 5, 6>>,
   g |-> <<0, 0, 2, 2, 1, 0>>,
   below |-> [i \in 1 .. 6 |-> FALSE]]

\* a visibility that peaks below the table's recombination rows, one that is
\* flat, one that still rises above _Z_REC_MAX_, one that peaks just below
\* _Z_REC_MAX_ and one that peaks at the reionization rows
VisibilityShapes ==
  {<<0, 0, 2, 2, 1, 0>>, <<0, 0, 0, 0, 0, 0>>, <<0, 0, 1, 1, 2, 0>>,
   <<0, 0, 0, 1, 1, 0>>, <<0, 1, 2, 1, 0, 0>>}

\* the nominal numbers and their variations, one quantity at a time
RemainingInputs ==
  {[NominalPass EXCEPT !.dkappa = c] : c \in DkappaColumns}
    \cup {[NominalPass EXCEPT !.tau_d = c] : c \in TauDColumns}
    \cup {[NominalPass EXCEPT !.g = c] : c \in VisibilityShapes}
    \cup {[NominalPass EXCEPT !.below = c] : c \in StreamingPatterns}

\* the steps in the order of thermodynamics_calculate_remaining_quantities,
\* up to the first that does not return _SUCCESS_: the table, the locals
\* and outputs q of the pass and pth->z_rec as they are left
thermodynamics_calculate_remaining_quantities(zt, t, q, o, nums) ==
  LET n == Len(zt)
      t1 == thermodynamics_calculate_conformal_drag_time(t, nums.tau_d)
      t2 == IF q.compute_damping_scale
            THEN thermodynamics_calculate_damping_scale(t1) ELSE t1
      b == DampingBoundary(tau_table(n)[n], t1["dkappa"][n].val)
      q2 == IF q.compute_damping_scale
            THEN [q EXCEPT !.boundary_num = b.num, !.boundary_den = b.den]
            ELSE q
      opt == thermodynamics_calculate_opticals(t2, nums.g)
      r == thermodynamics_calculate_recombination_quantities(
             zt, opt.tab, q.compute_damping_scale, nums.below)
      d == thermodynamics_calculate_drag_quantities(zt, opt.tab)
      q3 == SecondDerivatives(q2)
  IN IF opt.status # "ok"
     THEN [status |-> opt.status, tab |-> opt.tab, rq |-> q2, out |-> o]
     ELSE IF r.status # "ok"
     THEN [status |-> r.status, tab |-> opt.tab, rq |-> RecStored(q3, r),
           out |-> ZRecStored(o, r)]
     ELSE [status |-> d.status, tab |-> opt.tab,
           rq |-> [RecStored(q3, r) EXCEPT !.z_d = d.z_d,
                                          !.drag_row = d.drag_row],
           out |-> ZRecStored(o, r)]

\* thermodynamics_calculate_remaining_quantities and
\* thermodynamics_print_output with the numbers of `inputs`; their own
\* scratch buffers are allocated and freed within the call.  A read outside
\* the table is undefined behaviour.
RemainingWith(inputs) ==
  /\ pc = "remaining"
  /\ \E nums \in inputs :
       \E r \in {thermodynamics_calculate_remaining_quantities(
                   z_table, Valued(tab, nums.dkappa), rq, out, nums)} :
         /\ tab' = r.tab
         /\ rq' = r.rq
         /\ out' = r.out
         /\ CASE r.status = "ok" ->
                   pc' = "workspace_free" /\ UNCHANGED error_message
              [] r.status = "out_of_bounds" ->
                   pc' = "undefined_behaviour" /\ UNCHANGED error_message
              [] OTHER -> Fail(r.status)
  /\ UNCHANGED <<inp, heap, z_table, interval_limit,
                 index_interval, ptdw, tv, ptvs, ptrp, bis, rows, calls,
                 trial_y0, cache0>>
  /\ UNCHANGED <<phases, y_final>>
  /\ UNCHANGED <<qry, smp, inj>>

RemainingQuantities == RemainingWith(RemainingInputs)

WorkspaceFreed ==
  {"ap_z_limits", "ap_z_limits_delta", "precfast", "reionization_parameters",
   "pthp", "ptdw", "ptrp", "ptw"}

\* thermodynamics_workspace_free, then free(pvecback) and return _SUCCESS_
WorkspaceFree ==
  /\ pc = "workspace_free"
  /\ heap' = (heap \ WorkspaceFreed) \ {"pvecback"}
  /\ pc' = "success"
  /\ UNCHANGED <<inp, error_message, z_table, interval_limit, index_interval,
                 ptdw, tv, ptvs, ptrp, bis, out, rows, calls, trial_y0, cache0>>
  /\ UNCHANGED <<phases, y_final>>
  /\ UNCHANGED <<qry, call_vars>>

(***************************************************************************)
(* thermodynamics_at_z, called by the threads of Threads once              *)
(* thermodynamics_init has returned _SUCCESS_.  A call is two steps: the   *)
(* dispatch with the search of the table interval, then the evaluation     *)
(* that fills the caller's row and cursor.  An interpolated row is kept as *)
(* the term (method, interval, z).                                         *)
(***************************************************************************)

InterModes == {"inter_normal", "inter_closeby"}

\* the redshifts asked for: below the table, inside an interval, on a grid
\* point, above the reionization thresholds, thermo_z_initial and the last
\* grid value
QueryRedshifts ==
  {Exact(-1), Exact(Z(10)), Exact(ppr.reionization_sampling), Exact(Z(60)),
   Exact(inp.thermo_z_initial), z_table[Len(z_table)]}

\* the bisection of array_interpolate_linear and array_interpolate_spline
\* (inf and sup count lines from 0)
RECURSIVE Bisect(_, _, _, _)
Bisect(x_array, x, inf, sup) ==
  IF sup - inf > 1
  THEN IF Less(x, x_array[(inf + sup) \div 2 + 1])
       THEN Bisect(x_array, x, inf, (inf + sup) \div 2)
       ELSE Bisect(x_array, x, (inf + sup) \div 2, sup)
  ELSE inf

Found(inf) == [status |-> "ok", inf |-> inf]

NotFound(msg) == [status |-> msg, inf |-> 0]

\* the interval search of array_interpolate_linear / array_interpolate_spline
ArraySearch(x_array, x) ==
  IF Less(x, x_array[1]) THEN NotFound("x < x_min")
  ELSE IF Less(x_array[Len(x_array)], x) THEN NotFound("x > x_max")
  ELSE Found(Bisect(x_array, x, 0, Len(x_array) - 1))

\* while (x < x_array[inf]) inf--;
RECURSIVE Downward(_, _, _)
Downward(x_array, x, inf) ==
  IF inf >= 0 /\ Less(x, x_array[inf + 1])
  THEN Downward(x_array, x, inf - 1) ELSE inf

\* while (x > x_array[sup]) sup++;
RECURSIVE Upward(_, _, _)
Upward(x_array, x, sup) ==
  IF sup <= Len(x_array) - 1 /\ Less(x_array[sup + 1], x)
  THEN Upward(x_array, x, sup + 1) ELSE sup

\* the interval search of array_interpolate_spline_growing_closeby, started
\* from the caller's cursor
ClosebySearch(x_array, x, last_index) ==
  IF last_index < 0 \/ last_index > Len(x_array) - 1
  THEN NotFound("last_index out of range")
  ELSE IF Downward(x_array, x, last_index) < 0 THEN NotFound("x < x_min")
  ELSE IF Upward(x_array, x, Downward(x_array, x, last_index) + 1)
            > Len(x_array) - 1
  THEN NotFound("x > x_max")
  ELSE Found(Upward(x_array, x, Downward(x_array, x, last_index) + 1) - 1)

\* "some very specific cases require linear interpolation"
UsesLinear(z) ==
  \/ Scheme = "reio_half_tanh" /\ Less(z, Exact(2 * out.z_reio))
  \/ Scheme = "reio_inter" /\ Less(z, Exact(Z(50)))

Located(method, r) == [status |-> r.status, method |-> method, inf |-> r.inf]

\* the branch thermodynamics_at_z takes and the table interval it works on
AtZLocate(z, inter_mode, last_index) ==
  IF AtMost(z_table[Len(z_table)], z)
  THEN Located("extrapolation", Found(Len(z_table) - 1))
  ELSE IF UsesLinear(z) THEN Located("linear", ArraySearch(z_table, z))
  ELSE IF inter_mode = "inter_normal"
  THEN Located("spline", ArraySearch(z_table, z))
  ELSE Located("spline", ClosebySearch(z_table, z, last_index))

\* the content of pvecthermo when the call returns _SUCCESS_
Row(method, inf, z) == [method |-> method, inf |-> inf, z |-> z]

\* variant: one cursor shared by all callers
Cursor_Shared(t) == qry["a"].last_index

\* the buffers thermodynamics_free releases
Freed == {"z_table", "thermodynamics_table", "d2thermodynamics_dz2_table"}

\* thermodynamics_free, called after a successful thermodynamics_init
ThermodynamicsFree ==
  /\ pc = "success"
  /\ heap' = heap \ Freed
  /\ pc' = "freed"
  /\ UNCHANGED <<inp, error_message, z_table, interval_limit, index_interval,
                 ptdw, tv, ptvs, ptrp, bis, out, rows, calls, trial_y0, cache0>>
  /\ UNCHANGED <<phases, y_final>>
  /\ UNCHANGED <<qry, call_vars>>

\* the cursor the caller passes: its own
Cursor(t) == qry[t].last_index

\* a thread calls thermodynamics_at_z: the dispatch and the search
AtZEnter(t) ==
  /\ pc = "success"
  /\ qry[t].at = "idle"
  /\ \E z \in QueryRedshifts, inter_mode \in InterModes :
       \E r \in {AtZLocate(z, inter_mode, Cursor(t))} :
         IF r.status # "ok"
         THEN /\ error_message' = r.status
              /\ qry' = [qry EXCEPT ![t] =
                           [@ EXCEPT !.z = z, !.inter_mode = inter_mode,
                                     !.method = r.method, !.inf = 0,
                                     !.pvecthermo = "unwritten",
                                     !.status = "failure"]]
         ELSE /\ UNCHANGED error_message
              /\ qry' = [qry EXCEPT ![t] =
                           [@ EXCEPT !.at = "located", !.z = z,
                                     !.inter_mode = inter_mode,
                                     !.method = r.method, !.inf = r.inf,
                                     !.pvecthermo = "unwritten",
                                     !.status = "running"]]
  /\ UNCHANGED <<pc, inp, heap, z_table, interval_limit, index_interval, ptdw,
                 tv, ptvs, ptrp, bis, out, rows, calls, trial_y0, cache0,
                 phases, y_final>>
  /\ UNCHANGED call_vars

\* the call fills the row, leaves the interval in the cursor (the
\* extrapolation does not touch the cursor) and returns _SUCCESS_
AtZReturn(t) ==
  /\ pc = "success"
  /\ qry[t].at = "located"
  /\ qry' = [qry EXCEPT ![t] =
               [@ EXCEPT !.at = "idle",
                         !.pvecthermo = Row(qry[t].method, qry[t].inf, qry[t].z),
                         !.last_index = IF qry[t].method = "extrapolation"
                                        THEN @ ELSE qry[t].inf,
                         !.status = "ok"]]
  /\ UNCHANGED <<pc, inp, error_message, heap, z_table, interval_limit,
                 index_interval, ptdw, tv, ptvs, ptrp, bis, out, rows, calls,
                 trial_y0, cache0, phases, y_final>>
  /\ UNCHANGED call_vars

Next ==
  \/ ThermodynamicsInit
  \/ WorkspaceInit
  \/ IndicesAndLists
  \/ SolveSetup
  \/ VectorInit
  \/ EvolveOk
  \/ EvolverFail
  \/ DerivsError
  \/ BisectInit
  \/ BisectFirst
  \/ BisectIter
  \/ TrialFail
  \/ BisectEnd
  \/ SolveEnd
  \/ RemainingQuantities
  \/ WorkspaceFree
  \/ ThermodynamicsFree

Spec == Init /\ [][Next]_vars

(***************************************************************************)
(* The query phase.  The table is built from valid inputs by a run in      *)
(* which the evolver leaves the first of its possible final values; the    *)
(* threads then call thermodynamics_at_z in any interleaving.              *)
(***************************************************************************)

QueryInit ==
  /\ Init
  /\ inp.YHe = 245
  /\ inp.annihilation = 0
  /\ inp.thermo_z_initial = Z(5000000)
  /\ inp.pth = pth_fixed
  /\ inp.heat = heat_fixed
  /\ inp.sBBN_file = "readable"

\* the evolver left the first level in the vector and in the workspace
FirstLevel ==
  /\ \A v \in DOMAIN tv.y : v = "Tmat" => (tv.y[v] <= 1 \/ tv.y[v] > NLevels)
  /\ ptdw.x_He.kind = "evolved" => ptdw.x_He = Evolved(1)

QueryNext ==
  \/ ThermodynamicsInit
  \/ WorkspaceInit
  \/ IndicesAndLists
  \/ SolveSetup
  \/ VectorInit
  \/ EvolveOk /\ FirstLevel'
  \/ EvolverFail
  \/ DerivsError
  \/ BisectInit
  \/ BisectFirst /\ FirstLevel'
  \/ BisectIter /\ FirstLevel'
  \/ TrialFail
  \/ BisectEnd
  \/ SolveEnd
  \/ RemainingWith({NominalPass})
  \/ WorkspaceFree
  \/ \E t \in Threads : AtZEnter(t)
  \/ \E t \in Threads : AtZReturn(t)

QuerySpec == QueryInit /\ [][QueryNext]_vars


(***************************************************************************)
(* Properties                                                              *)
(***************************************************************************)

Returned == pc \in {"success", "failure"}

AfterSolve == pc \in {"solve_end", "remaining", "workspace_free", "success"}

\* the inputs thermodynamics_test_parameters accepts
ValidInputs == thermodynamics_test_parameters(inp) = "ok"

\* C1: with reio_parametrization = none and otherwise valid inputs, no step
\* of the compute phase raises an error: the run never leaves defined
\* behaviour, and if it fails at all the failure is the evolver's own.
C1_NoReionizationRunsClean ==
  (Scheme = "reio_none" /\ ValidInputs) =>
     /\ pc # "undefined_behaviour"
     /\ pc = "failure" => error_message = "evolver: integration failed"

\* the domain violations: Y_He outside its bounds, a negative annihilation
\* efficiency, a z_initial not larger than the helium-recombination redshift
DomainViolation ==
  \/ inp.YHe # YHE_BBN /\ (inp.YHe < YHE_SMALL \/ inp.YHe > YHE_BIG)
  \/ inp.annihilation < 0
  \/ inp.thermo_z_initial <= ppr.recfast_z_He_3

\* C2: every domain violation makes init return an error before any phase
\* of the integration is started: the run goes from the parameter test
\* straight to the error return, and no phase is ever set up.
C2_DomainViolationStopsInit ==
  DomainViolation => (pc \in {"init", "failure"} /\ phases = << >>)

\* the buffers that belong to the call: everything but the tables of struct
\* thermo, which outlive it
WorkspaceBuffers ==
  {"pvecback", "ptw", "tv", "ptv", "mz_output", "interval_limit"}
    \cup WorkspaceInitAllocs \cup {"reionization_parameters"}

\* C3: on every return from init, success or failure, every workspace
\* allocated during the call has been released.
C3_WorkspacesReleasedOnReturn ==
  Returned => heap \cap WorkspaceBuffers = {}


\* the phase list of the scheduler, in chronological order
PhaseOrder ==
  <<index_ap_brec, index_ap_He1, index_ap_He1f, index_ap_He2, index_ap_H,
    index_ap_frec, index_ap_reio>>

\* C4: the integration visits the seven phases in the fixed order brec, He1,
\* He1f, He2, H, frec, reio, each exactly once (all seven once the loop is
\* left); every run of the evolver covers the interval of the phase being
\* visited, which starts where the previous phase's interval ended; the
\* first interval starts at z_initial as the grid holds it (the last grid
\* value, thermo_z_initial up to the rounding of the log segment) and the
\* last one ends at z = 0.
C4_PhasesInOrderAndContiguous ==
  /\ Len(phases) <= ap_size
  /\ phases = SubSeq(PhaseOrder, 1, Len(phases))
  /\ AfterSolve => phases = PhaseOrder
  /\ \A k \in 1 .. Len(calls) :
       /\ calls[k].ap \in {phases[n] : n \in 1 .. Len(phases)}
       /\ k > 1 => calls[k].ap \in {calls[k - 1].ap, calls[k - 1].ap + 1}
       /\ (k > 1 /\ calls[k].ap = calls[k - 1].ap + 1) =>
             calls[k].mz_ini = calls[k - 1].mz_end
       /\ (k > 1 /\ calls[k].ap = calls[k - 1].ap) => calls[k] = calls[k - 1]
       /\ calls[k].ap = index_ap_brec =>
             /\ Opposite(calls[k].mz_ini)
                  = LogPoint(inp.thermo_z_initial, inp.thermo_z_linear, 0)
             /\ Opposite(calls[k].mz_ini).n = inp.thermo_z_initial
       /\ calls[k].ap = index_ap_reio => calls[k].mz_end = Exact(0)

\* a complete run in which all seven intervals were integrated
C4_Witness ==
  /\ pc = "success"
  /\ phases = PhaseOrder
  /\ Len(calls) = ap_size

\* the variables the phase table lists for phase ap
PhaseTable(ap) ==
  IF ap = index_ap_H THEN {"Tmat", "x_He"}
  ELSE IF ap \in {index_ap_frec, index_ap_reio} THEN {"Tmat", "x_H", "x_He"}
  ELSE {"Tmat"}

\* C5: in every phase the integrated state vector holds exactly the
\* variables the phase table lists: those variables have an index, and the
\* vector handed to the evolver has no component beyond them.
C5_VectorHoldsPhaseVariables ==
  pc \in {"evolve", "bisect_first", "bisect_loop"} =>
     /\ Vars(tv) = PhaseTable(index_interval)
     /\ tv.tv_size = Cardinality(PhaseTable(index_interval))

\* the redshift of the transition into the current phase
TransitionRedshift == Opposite(interval_limit[index_interval + 1])

\* C6: at every phase transition each variable that was integrated in the
\* previous phase starts the new phase with its final value from the
\* previous phase, and each newly integrated variable (x_He on entering H,
\* x_H on entering frec) starts with the previous phase's analytic Saha
\* value at the transition redshift and the final matter temperature.
C6_TransitionCarriesAndSeeds ==
  (pc \in {"evolve", "bisect_init"} /\ index_interval > index_ap_brec) =>
     /\ \A v \in PhaseTable(index_interval - 1) : tv.y[v] = y_final[v]
     /\ index_interval = index_ap_H =>
          tv.y["x_He"] = SymAt("saha_He2_x_He", TransitionRedshift,
                             y_final["Tmat"], ptdw.dTmat)
     /\ index_interval = index_ap_frec =>
          tv.y["x_H"] = SymAt("saha_H_x_H", TransitionRedshift,
                            y_final["Tmat"], ptdw.dTmat)
     /\ calls[Len(calls)].mz_end = Opposite(TransitionRedshift)

\* the frec phase has just been set up from the final state of the H phase
C6_Witness ==
  /\ pc = "evolve"
  /\ index_interval = index_ap_frec
  /\ y_final["x_He"] = Evolved(NLevels)
  /\ tv.y["x_He"] = Evolved(NLevels)
  /\ tv.y["x_H"].kind = "saha_H_x_H"


\* |a - b| for integers
Distance(a, b) == IF a >= b THEN a - b ELSE b - a

\* C7: when the tau_reio bisection returns successfully, the optical depth
\* of the last trial - the trial whose redshift is stored as z_reio -
\* differs from the target tau_reio by at most tau_reio * tol_tau.
C7_LastTrialWithinTolerance ==
  (InTauMode /\ AfterSolve) =>
     /\ Distance(out.reionization_optical_depth, inp.tau_reio) * ppr.tol_den
          <= inp.tau_reio * ppr.tol_num
     /\ out.z_reio = ptrp.reio_redshift
     /\ bis.counter >= 1 =>
          (out.z_reio = bis.z_mid /\ out.reionization_optical_depth = bis.tau_mid)

\* a bisection that needed several midpoint trials and ended next to, not on,
\* the target
C7_Witness ==
  /\ InTauMode
  /\ pc = "success"
  /\ bis.counter >= 2
  /\ out.reionization_optical_depth # inp.tau_reio

\* C8: the bisection always terminates.  Every pass through the loop body
\* that stays in the loop increases the counter, and the counter of a state
\* in the loop never exceeds the cap, so there are at most MAX_IT + 1
\* passes; the loop is left only by meeting the convergence criterion or by
\* an error return.
C8_BisectionTerminates ==
  [][pc = "bisect_loop" =>
       /\ pc' = "bisect_loop" =>
            (bis'.counter = bis.counter + 1 /\ bis'.counter <= MAX_IT)
       /\ pc' # "bisect_loop" => pc' \in {"solve_end", "failure"}
       /\ pc' = "solve_end" => ~NotConverged(bis.tau_sup, bis.tau_inf)
       /\ (pc' = "failure" /\ bis'.counter > MAX_IT) =>
            error_message' = "maximum number of iterations exceeded"]_vars

\* the bisection ran into the iteration cap and returned the error
C8_Witness ==
  /\ pc = "failure"
  /\ bis.counter = MAX_IT + 1
  /\ error_message = "maximum number of iterations exceeded"

\* C9: every bisection trial starts the reio-phase integration from exactly
\* the cached pre-reionization state, and the cached state is never
\* modified: the latest trial was started from the cached y, the vector the
\* next trial will start from equals the cached one, and the cached vector
\* is still the one vector_init built for the reio phase.
C9_TrialsStartFromCachedState ==
  /\ pc \in {"bisect_first", "bisect_loop"} =>
       /\ ptvs = cache0
       /\ \A v \in PhaseTable(index_ap_reio) :
            tv.y[v] = cache0.y[v] /\ tv.dy[v] = cache0.dy[v]
  /\ (InTauMode /\ Len(calls) >= ap_size) =>
       /\ ptvs = cache0
       /\ trial_y0 = cache0.y

\* the third trial is about to start, after two trials that each ran the
\* evolver on the temporary vector
C9_Witness ==
  /\ pc = "bisect_loop"
  /\ bis.counter = 1
  /\ Len(calls) = ap_size + 1
  /\ NotConverged(bis.tau_sup, bis.tau_inf)
  /\ trial_y0 = cache0.y
  /\ cache0.y["Tmat"] = NLevels

(***************************************************************************)
(* Properties of the query phase                                           *)
(***************************************************************************)

LastGridValue == z_table[Len(z_table)]

\* C11: a query at the last grid value is answered from the table: whenever
\* a call of thermodynamics_at_z takes the asymptotic extrapolation, its z
\* is strictly greater than z_table[last].
C11_ExtrapolationOnlyAboveTable ==
  \A t \in Threads :
    (pc = "success" /\ qry[t].method = "extrapolation") =>
       Less(LastGridValue, qry[t].z)

\* the cases in which the interpolation is linear
NearDiscontinuity(z) ==
  \/ Scheme = "reio_half_tanh" /\ Less(z, Exact(2 * out.z_reio))
  \/ Scheme = "reio_inter" /\ Less(z, Exact(Z(50)))

\* C12: for every query redshift within the range of the table (from
\* z_table[0] to z_table[last], both included) and either cursor mode, the
\* row is a linear interpolation exactly when the scheme is half_tanh with
\* z < 2 z_reio or inter with z < 50, and a cubic-spline interpolation in
\* every other case.
C12_LinearExactlyNearDiscontinuity ==
  \A t \in Threads :
    (pc = "success" /\ qry[t].at = "located"
       /\ AtMost(z_table[1], qry[t].z) /\ AtMost(qry[t].z, LastGridValue)) =>
       /\ qry[t].method = "linear" <=> NearDiscontinuity(qry[t].z)
       /\ qry[t].method = "spline" <=> ~NearDiscontinuity(qry[t].z)

\* a step of a query changes nothing that belongs to another caller, and a
\* call that returns has filled its row and cursor with what the call gives
\* when it runs alone from the caller's own cursor, whatever the other
\* threads did in between
CallersIndependent ==
  \A t \in Threads :
    /\ qry'[t] # qry[t] => \A u \in Threads \ {t} : qry'[u] = qry[u]
    /\ (qry[t].at = "located" /\ qry'[t].at = "idle") =>
         \E r \in {AtZLocate(qry[t].z, qry[t].inter_mode,
                             qry[t].last_index)} :
           /\ r.status = "ok"
           /\ qry'[t].status = "ok"
           /\ qry'[t].pvecthermo = Row(r.method, r.inf, qry[t].z)
           /\ qry'[t].last_index =
                IF r.method = "extrapolation"
                THEN qry[t].last_index ELSE r.inf

\* the redshift grid, the table, the second-derivative table and the scalar
\* summaries (with the rest of what the derived pass left), the inputs and
\* the buffers
FrozenState == <<z_table, tab, rq, rows, out, inp, heap>>

\* C13: once init has returned, a step of a query leaves the redshift grid,
\* the table, the second-derivative table and the scalar summaries as they
\* are and changes nothing that belongs to another caller; the shared
\* pth->error_message is written only by a call that fails; a call that
\* returns has filled its row and cursor with what the call gives when it
\* runs alone from the caller's own cursor, whatever the other threads did
\* in between.
C13_QueriesIndependent ==
  [][pc = "success" =>
       /\ UNCHANGED FrozenState
       /\ error_message' # error_message =>
            \E t \in Threads : /\ qry'[t].status = "failure"
                               /\ qry[t].at = "idle" /\ qry'[t].at = "idle"
                               /\ error_message' # ""
       /\ CallersIndependent]_vars

\* C13 as stated: a query writes only to its caller's row and cursor, so
\* the shared pth->error_message is left as it is too
C13_WritesOnlyRowAndCursor ==
  [][pc = "success" =>
       /\ UNCHANGED FrozenState
       /\ UNCHANGED error_message
       /\ CallersIndependent]_vars

\* a closeby call has returned its row on a grid point while the other
\* thread, whose cursor is elsewhere, is inside a call of its own, after a
\* call that failed
C13_Witness ==
  /\ error_message # ""
  /\ qry["a"].at = "located"
  /\ qry["b"].at = "idle"
  /\ qry["b"].status = "ok"
  /\ qry["b"].inter_mode = "inter_closeby"
  /\ qry["b"].z = Exact(ppr.reionization_sampling)
  /\ qry["b"].pvecthermo = Row("spline", 1, qry["b"].z)
  /\ qry["a"].last_index = 0

(***************************************************************************)
(* Properties of the table                                                 *)
(***************************************************************************)

\* C14: the derived-quantity pass starts only after the integration of all
\* seven phases, with every trial of the tau_reio bisection, has finished
\* successfully: the loop over the intervals is over, the bisection has left
\* its loop converged, no error is pending, and every row of the table has
\* been written by the sample sink.
C14_DerivedPassSeesCompleteTable ==
  pc = "remaining" =>
     /\ phases = PhaseOrder
     /\ index_interval = ap_size
     /\ error_message = ""
     /\ InTauMode => ~NotConverged(bis.tau_sup, bis.tau_inf)
     /\ rows = 1 .. Nz_tot

\* C15: the redshift grid has exactly N_log + N_lin + N_reio entries, is
\* strictly increasing over the whole array (so no redshift is repeated at
\* the joins of the segments), and has z = 0 at index 0 and z_initial (up
\* to the rounding of the log segment) at the last index.
C15_GridStrictlyMonotone ==
  z_table # << >> =>
     /\ Len(z_table) = Nz_reco_log + Nz_reco_lin + Nz_reio
     /\ \A n \in 2 .. Len(z_table) : Less(z_table[n - 1], z_table[n])
     /\ z_table[1] = Exact(0)
     /\ z_table[Len(z_table)].n = inp.thermo_z_initial


\* the two-jump many_tanh configuration: centres 7.0 and 3.5 in that order,
\* many_tanh_xe = -1 and -2, width 0.5
TwoJumpScenario ==
  /\ Scheme = "reio_many_tanh"
  /\ inp.pth.many_tanh_z = <<Z(7), (7 * ZScale) \div 2>>
  /\ inp.pth.many_tanh_xe = <<-1000, -2000>>
  /\ inp.pth.many_tanh_width = ZScale \div 2

\* C16: with the two-jump many_tanh configuration (many_tanh_z = 7.0, 3.5,
\* many_tanh_xe = -1, -2, width 0.5) the reionization parameter setup accepts
\* the input and thermodynamics_init never takes an error branch.
C16_TwoJumpScenarioAccepted ==
  TwoJumpScenario => (pc # "failure" /\ error_message = "")


\* the width and sharpness inputs the reionization function of a scheme
\* divides by
WidthInputs(scheme) ==
  CASE scheme \in {"reio_camb", "reio_half_tanh"} ->
         {"reionization_width", "helium_fullreio_width"}
    [] scheme = "reio_bins_tanh" -> {"binned_reio_step_sharpness"}
    [] scheme = "reio_many_tanh" -> {"many_tanh_width"}
    [] OTHER -> {}

\* thermodynamics_set_parameters_reionization has returned
SetupDone == pc \notin {"init", "workspace_init", "indices", "solve"}

\* C17: for every reionization scheme, once the parameter setup has returned
\* with a width or sharpness input equal to zero, it has returned an error:
\* the run never goes on to evaluate the reionization function.
C17_ZeroWidthRejected ==
  (SetupDone /\ \E f \in WidthInputs(Scheme) : inp.pth[f] = 0)
    => (pc = "failure" /\ error_message # "")

\* C19: during the integration of the reionization phase the cached
\* xe_before keeps the value it had at the hand-off from the frec phase.
C19_XeBeforeKeptDuringReio ==
  [][(/\ pc = "evolve"
      /\ index_interval = index_ap_reio
      /\ "reio_xe_before" \in DefinedReioParams(Scheme)
      /\ pc' \in {"vector_init", "solve_end"})
       => ptrp'.reio_xe_before = ptrp.reio_xe_before]_vars


\* redshifts at which the evolver may evaluate the reionization function:
\* today, inside the reionization range, and above its start
ReioRedshifts == {Exact(0), Exact(Z(10)), Exact(Z(60))}

\* C20: for the scheme of the run and the parameter array of any state in
\* which thermodynamics_x_analytic has stored xe_before, an evaluation of
\* the reionization function at any redshift returns the parameter array
\* as it found it.
C20_ReionizationFunctionPure ==
  (SetupDone /\ pc # "failure" /\ "reio_xe_before" \in ptrp.written) =>
    \A z \in ReioRedshifts :
      thermodynamics_reionization_function(z, Scheme, ptrp).rp = ptrp


\* C18: whenever thermodynamics_init has returned _SUCCESS_, the
\* recombination redshift it reports lies strictly between Z_REC_MIN and
\* Z_REC_MAX.
C18_RecombinationRedshiftInRange ==
  pc = "success" =>
    /\ out.z_rec.kind = "finite"
    /\ Z(Z_REC_MIN) * out.z_rec.den < out.z_rec.num
    /\ out.z_rec.num < Z(Z_REC_MAX) * out.z_rec.den


(***************************************************************************)
(* The sample sink output by output: a run of the evolver over an interval *)
(* taken apart into the calls of the sink, one step each, and the rest of  *)
(* the run.                                                                *)
(***************************************************************************)

\* the evolver hands the sink the next output of the interval it integrates
StoreSources ==
  /\ pc = "evolve"
  /\ \E y \in FinalStates(tv), st \in {Started(ptrp)} :
       \E index_z \in {i \in Outputs :
                         /\ i >= NextOutput
                         /\ \A j \in Outputs : j >= NextOutput => i <= j} :
         \E r \in {Store(index_z, y, st)} :
           /\ st.status = "ok"
           /\ r.status = "ok"
           /\ ptdw' = r.w
           /\ ptrp' = r.rp
           /\ z_table' = r.z_table
           /\ tab' = r.tab
           /\ smp' = [r.smp EXCEPT !.running = TRUE]
           /\ rows' = r.rows
  /\ UNCHANGED <<pc, inp, error_message, heap, interval_limit, index_interval,
                 tv, ptvs, bis, out, calls, trial_y0, cache0, phases, y_final>>
  /\ UNCHANGED <<qry, rq, inj>>

SinkInit ==
  /\ Init
  /\ inp.YHe = 245
  /\ inp.annihilation = 0
  /\ inp.thermo_z_initial = Z(5000000)
  /\ inp.pth = pth_fixed
  /\ inp.heat = heat_fixed
  /\ inp.sBBN_file = "readable"
  /\ inp.reio_parametrization \in {"reio_camb", "reio_none"}
  /\ inp.reio_z_or_tau = "reio_z"

\* thermodynamics_init up to the return of thermodynamics_solve
SinkNext ==
  \/ ThermodynamicsInit
  \/ WorkspaceInit
  \/ IndicesAndLists
  \/ SolveSetup
  \/ VectorInit
  \/ EvolveOk /\ FirstLevel'
  \/ EvolverFail
  \/ DerivsError
  \/ StoreSources
  \/ SolveEnd

SinkSpec == SinkInit /\ [][SinkNext]_vars

\* C21: a sample recorded in a phase that follows a switch is blended
\* exactly when it lies less than delta_i below the switch redshift; for a
\* blended sample s = (switch - z) / delta_i, 0 <= s <= 1, and the recorded
\* x is the blend of the new and the previous phase's x with weight w(s).
C21_BlendWithinDelta ==
  (smp.called /\ smp.ap_current # 0) =>
    LET limit == ap_z_limits[smp.ap_current - 1]
        delta == ap_z_limits_delta[smp.ap_current]
    IN /\ smp.blended <=> Less(Exact(limit - delta), smp.z)
       /\ smp.blended =>
            /\ smp.s_num * delta = (limit - smp.z.n) * smp.s_den
            /\ 0 <= smp.s_num /\ smp.s_num <= smp.s_den
            /\ smp.x = Blend(smp.s_num, smp.s_den, smp.x_new, smp.x_previous)


(***************************************************************************)
(* The derived-quantity pass routine by routine: a run of                  *)
(* thermodynamics_init from valid inputs, with and without the damping     *)
(* scale, in which thermodynamics_calculate_remaining_quantities is taken  *)
(* apart into its calls, one step each.                                    *)
(***************************************************************************)

\* pth->compute_damping_scale
DampingRequests == BOOLEAN

DerivedInputs ==
  {i \in Inputs : /\ i.YHe = 245
                  /\ i.annihilation = 0
                  /\ i.thermo_z_initial = Z(5000000)
                  /\ i.pth = pth_fixed
                  /\ i.heat = heat_fixed
                  /\ i.sBBN_file = "readable"
                  /\ i.reio_parametrization \in {"reio_camb", "reio_none"}
                  /\ i.reio_z_or_tau = "reio_z"}

DerivedInit == InitRequesting(DerivedInputs, DampingRequests)

DerivedNext ==
  \/ ThermodynamicsInit
  \/ WorkspaceInit
  \/ IndicesAndLists
  \/ SolveSetup
  \/ VectorInit
  \/ EvolveOk /\ FirstLevel'
  \/ EvolverFail
  \/ DerivsError
  \/ SolveEnd
  \/ ConformalDragTime
  \/ DampingScale
  \/ Opticals
  \/ RecombinationQuantities
  \/ DragQuantities
  \/ WorkspaceFree

DerivedSpec == DerivedInit /\ [][DerivedNext]_vars


\* the positions of the pass at which the optical step has returned normally
AfterOpticals ==
  {"recombination_quantities", "drag_quantities", "workspace_free", "success"}

\* every cell of column c holds the quantity what of its own row
ColumnHolds(c, what) ==
  \A i \in 1 .. Len(tab[c]) : tab[c][i].what = what /\ tab[c][i].row = i - 1

\* C22: once the optical step of the derived pass has returned, the columns
\* ddkappa, dddkappa and g hold in every row the final optical value of that
\* row (no value left by the drag-time or the damping step), and tau_d and
\* r_d still hold what those two steps wrote
C22_ScratchColumnsRestored ==
  pc \in AfterOpticals =>
    /\ ColumnHolds("ddkappa", "ddkappa")
    /\ ColumnHolds("dddkappa", "dddkappa")
    /\ ColumnHolds("g", "g")
    /\ ColumnHolds("tau_d", "tau_d")
    /\ rq.compute_damping_scale => ColumnHolds("r_d", "r_d")

\* thermodynamics_init has returned _SUCCESS_ with the damping scale
\* requested
C22_Witness ==
  /\ pc = "success"
  /\ rq.compute_damping_scale
  /\ ColumnHolds("g", "g")
  /\ ColumnHolds("r_d", "r_d")


\* the damping step has run and was asked for the damping scale
DampingDone ==
  /\ pc \in {"opticals"} \cup AfterOpticals
  /\ rq.compute_damping_scale

\* the row of the earliest conformal time of the table
InitialRow ==
  CHOOSE k \in 1 .. tt_size :
    \A j \in 1 .. tt_size : tau_table(tt_size)[k] <= tau_table(tt_size)[j]

\* C24: r_d of each row is 2*pi*sqrt(boundary + integral from tau_ini to
\* the conformal time of that row), with the boundary term
\* tau_ini/(3*dkappa_ini) * 16/(15*6), the quantities _ini being those of
\* the earliest time of the table
C24_DampingBoundaryTerm ==
  DampingDone =>
    /\ rq.boundary_num * (3 * tab["dkappa"][InitialRow].val) * (15 * 6)
         = tau_table(tt_size)[InitialRow] * 16 * rq.boundary_den
    /\ ColumnHolds("r_d", "r_d")

\* C24 as stated: the boundary term is tau_ini/(3*dkappa_ini) * 16/(15*6*3)
C24_BoundaryTermAsStated ==
  DampingDone =>
    /\ rq.boundary_num * (3 * tab["dkappa"][InitialRow].val) * (15 * 6 * 3)
         = tau_table(tt_size)[InitialRow] * 16 * rq.boundary_den
    /\ ColumnHolds("r_d", "r_d")

\* the damping scale has been written with a nonzero boundary term
C24_Witness ==
  /\ DampingDone
  /\ rq.boundary_num > 0
  /\ InitialRow = tt_size
  /\ tab["r_d"][1] = Cell("r_d", 0, 0)


\* thermodynamics_calculate_remaining_quantities has returned _SUCCESS_
PassDone == pc \in {"workspace_free", "success"}

\* the first position of the tau_d column, counting from today, whose value
\* is at least one (tau_d in halves)
FirstDragPosition ==
  CHOOSE p \in 1 .. tt_size :
    /\ tab["tau_d"][p].val >= 2
    /\ \A q \in 1 .. p - 1 : tab["tau_d"][q].val < 2

\* C23: z_d is the linear interpolation to tau_d = 1 between the first row,
\* counting from today, with tau_d >= 1 and the row just before it, and so
\* lies between the redshifts of these two rows
C23_DragRedshiftBracketed ==
  PassDone =>
    LET p == FirstDragPosition
    IN /\ p > 1
       /\ rq.z_d.kind = "finite"
       /\ z_table[p - 1].n * rq.z_d.den <= rq.z_d.num
       /\ rq.z_d.num <= z_table[p].n * rq.z_d.den
       /\ (rq.z_d.num - z_table[p - 1].n * rq.z_d.den)
            * (tab["tau_d"][p].val - tab["tau_d"][p - 1].val)
          = (2 - tab["tau_d"][p - 1].val) * (z_table[p].n - z_table[p - 1].n)
              * rq.z_d.den

\* the pass has finished with z_d strictly inside its bracket
C23_Witness ==
  /\ PassDone
  /\ z_table[FirstDragPosition - 1].n * rq.z_d.den < rq.z_d.num
  /\ rq.z_d.num < z_table[FirstDragPosition].n * rq.z_d.den
  /\ tab["tau_d"][FirstDragPosition - 1].val > 0


\* the recombination step has returned normally
RecombinationDone == pc = "drag_quantities" \/ PassDone

\* C25: whenever z_rec is a number, rd_rec is an interpolation of r_d between
\* the two rows it reads: the weight of each of the two rows lies between
\* zero and one
C25_DampingWeightsInUnitInterval ==
  (RecombinationDone /\ rq.compute_damping_scale /\ out.z_rec.kind = "finite") =>
    /\ rq.rd_lo.kind = "finite"
    /\ 0 <= rq.rd_lo.num /\ rq.rd_lo.num <= rq.rd_lo.den
    /\ rq.rd_hi.kind = "finite"
    /\ 0 <= rq.rd_hi.num /\ rq.rd_hi.num <= rq.rd_hi.den

\* C26: the step that locates the drag epoch reads no row outside the table
C26_DragSearchInsideTable ==
  [][pc = "drag_quantities" => pc' # "undefined_behaviour"]_vars

\* C27: the step that locates the maximum of the visibility and the
\* free-streaming time reads no row outside the table
C27_RecombinationSearchInsideTable ==
  [][pc = "recombination_quantities" => pc' # "undefined_behaviour"]_vars

\* C29: g_max is the visibility of the centre row of the three-point fit, and
\* no neighbour of that row has a larger visibility
C29_GMaxIsTabulatedPeak ==
  RecombinationDone =>
    /\ rq.g_max = tab["g"][rq.fit_row + 1].val
    /\ rq.g_max >= tab["g"][rq.fit_row].val
    /\ rq.g_max >= tab["g"][rq.fit_row + 2].val


\* C28: after a successful thermodynamics_init followed by
\* thermodynamics_free, no buffer allocated during the init is still
\* allocated
C28_NothingLeftAllocated ==
  pc = "freed" => heap = {}


(***************************************************************************)
(* The energy injection.  thermodynamics_solve_derivs asks for the rate at *)
(* the redshift it is called at; the heating parameters are those that     *)
(* thermodynamics_test_parameters accepts (none negative, CDM present),     *)
(* with annihilation_variation = 0.                                        *)
(***************************************************************************)

RECURSIVE Pow(_, _)
Pow(b, n) == IF n = 0 THEN 1 ELSE b * Pow(b, n - 1)

\* pth->decay and pth->annihilation_f_halo
DecayInputs == {0, 1, 2}

HaloInputs == {0, 1}

\* inputs the parameter test accepts, with every combination of the three
\* channels and both treatments of the injection
HeatingInputs ==
  { i \in [ YHe : {245}, annihilation : {0, 1},
            thermo_z_initial : {Z(5000000)},
            thermo_z_linear : {Z(3010)},
            reio_parametrization : {"reio_camb"}, reio_z_or_tau : {"reio_z"},
            tau_reio : {0}, pth : {pth_fixed},
            heat : {[heat_fixed EXCEPT !.annihilation_f_halo = f, !.decay = d,
                                        !.has_on_the_spot = o] :
                       f \in HaloInputs, d \in DecayInputs, o \in BOOLEAN},
            sBBN_file : {"readable"} ] :
      thermodynamics_test_parameters(i) = "ok" }

\* the redshifts the rate is asked at
InjectionRedshifts == 0 .. 4

\* pow(rho,2)/c/c*pow(1+z,3)*(pow(1+z,3)*annihilation_at_z + f_halo*erfc)
\*   + rho*pow(1+z,3)*decay
thermodynamics_solve_onthespot_energy_injection(pthp, z) ==
  Rate("on_the_spot", Pow(1 + z, 6) * pthp.annihilation,
       Pow(1 + z, 3) * pthp.annihilation_f_halo, Pow(1 + z, 3) * pthp.decay)

\* beyond the on-the-spot approximation the result is a trapezoidal sum of
\* on-the-spot rates at zp = z, z+1, ... with positive weights; it is kept
\* as the rate of its first point
thermodynamics_solve_energy_injection(pthp, z) ==
  IF pthp.annihilation > 0
  THEN IF ~pthp.has_on_the_spot
       THEN [thermodynamics_solve_onthespot_energy_injection(pthp, z)
               EXCEPT !.kind = "integrated"]
       ELSE thermodynamics_solve_onthespot_energy_injection(pthp, z)
  ELSE ZeroRate

\* the rate vanishes: every coefficient does
RateIsZero(r) == r.annihilation = 0 /\ r.halo = 0 /\ r.decay = 0

\* one call of thermodynamics_solve_energy_injection
EnergyInjection ==
  /\ pc = "evolve"
  /\ \E z \in InjectionRedshifts :
       inj' = [inj EXCEPT !.called = TRUE, !.z = z,
                          !.energy_rate =
                             thermodynamics_solve_energy_injection(inj.pthp, z)]
  /\ UNCHANGED <<init_vars, qry, smp, tab, rq>>

\* thermodynamics_init is called with one of the heating inputs
InjectionInit == InitWith(HeatingInputs)

\* the run up to the first call of the evolver, which asks for the rate
InjectionNext ==
  \/ ThermodynamicsInit
  \/ WorkspaceInit
  \/ IndicesAndLists
  \/ SolveSetup
  \/ VectorInit
  \/ EnergyInjection

InjectionSpec == InjectionInit /\ [][InjectionNext]_vars

\* C30: with a positive decay parameter and no annihilation the returned
\* energy-injection rate is not zero
C30_DecayAloneInjects ==
  (inj.called /\ inj.pthp.decay > 0 /\ inj.pthp.annihilation = 0) =>
    ~RateIsZero(inj.energy_rate)

====
